---- MODULE Spec2Model ----
(***************************************************************************)
(* Command interpretation, confirmation and automation pipeline of the     *)
(* JARVIS backend: the phrase parser (modules/bilingual_parser.py), the    *)
(* confirmation manager (modules/security.py), the dispatcher              *)
(* (main.py handle_command and the REST endpoints around it) and the macro *)
(* engine (modules/automation.py).                                         *)
(*                                                                         *)
(* Texts are ASCII strings with single spaces as the only white space.     *)
(* The Devanagari phrases of the lexicon cannot occur inside such a text,  *)
(* so the lexicon below lists the ASCII phrases only, in source order.     *)
(***************************************************************************)
EXTENDS Integers, Sequences, FiniteSets, TLC

(***************************************************************************)
(* String helpers (Python str methods used by the parser).                 *)
(***************************************************************************)

\* p in t
Contains(t, p) ==
    \E i \in 1..(Len(t) - Len(p) + 1) : SubSeq(t, i, i + Len(p) - 1) = p

\* t.find(p), 1-based; 0 when p does not occur.
Find(t, p) ==
    IF Contains(t, p)
    THEN CHOOSE i \in 1..(Len(t) - Len(p) + 1) :
            /\ SubSeq(t, i, i + Len(p) - 1) = p
            /\ \A j \in 1..(i - 1) : SubSeq(t, j, j + Len(p) - 1) # p
    ELSE 0

StartsWith(t, p) == Len(p) <= Len(t) /\ SubSeq(t, 1, Len(p)) = p

EndsWith(t, p) == Len(p) <= Len(t) /\ SubSeq(t, Len(t) - Len(p) + 1, Len(t)) = p

UpperToLower ==
    [c \in {"A", "B", "C", "D", "E", "F", "G", "H", "I", "J", "K", "L", "M",
            "N", "O", "P", "Q", "R", "S", "T", "U", "V", "W", "X", "Y", "Z"} |->
        CASE c = "A" -> "a" [] c = "B" -> "b" [] c = "C" -> "c" [] c = "D" -> "d"
          [] c = "E" -> "e" [] c = "F" -> "f" [] c = "G" -> "g" [] c = "H" -> "h"
          [] c = "I" -> "i" [] c = "J" -> "j" [] c = "K" -> "k" [] c = "L" -> "l"
          [] c = "M" -> "m" [] c = "N" -> "n" [] c = "O" -> "o" [] c = "P" -> "p"
          [] c = "Q" -> "q" [] c = "R" -> "r" [] c = "S" -> "s" [] c = "T" -> "t"
          [] c = "U" -> "u" [] c = "V" -> "v" [] c = "W" -> "w" [] c = "X" -> "x"
          [] c = "Y" -> "y" [] c = "Z" -> "z"]

RECURSIVE Lower(_)
\* str.lower()
Lower(s) ==
    IF Len(s) = 0 THEN ""
    ELSE LET c == SubSeq(s, 1, 1)
         IN  (IF c \in DOMAIN UpperToLower THEN UpperToLower[c] ELSE c)
                \o Lower(SubSeq(s, 2, Len(s)))

RECURSIVE LStrip(_)
LStrip(s) == IF StartsWith(s, " ") THEN LStrip(SubSeq(s, 2, Len(s))) ELSE s

RECURSIVE RStrip(_)
RStrip(s) == IF EndsWith(s, " ") THEN RStrip(SubSeq(s, 1, Len(s) - 1)) ELSE s

\* str.strip()
Strip(s) == LStrip(RStrip(s))

\* set(text.split()): the white-space separated tokens of a text.
Words(t) ==
    { SubSeq(t, i, j) : <<i, j>> \in
        { ij \in (1..Len(t)) \X (1..Len(t)) :
            /\ ij[1] <= ij[2]
            /\ ~Contains(SubSeq(t, ij[1], ij[2]), " ")
            /\ (ij[1] = 1 \/ SubSeq(t, ij[1] - 1, ij[1] - 1) = " ")
            /\ (ij[2] = Len(t) \/ SubSeq(t, ij[2] + 1, ij[2] + 1) = " ") } }

(***************************************************************************)
(* Lexicon (config.py HINDI_COMMANDS): <<action key, phrases>> in source   *)
(* order.                                                                  *)
(***************************************************************************)
HINDI_COMMANDS ==
    <<
        <<"shutdown", <<"shutdown", "band karo", "band", "pc band", "computer band", "system band">>>>,
        <<"restart", <<"restart", "dobara shuru", "fir se chalu", "reboot">>>>,
        <<"sleep", <<"sleep", "sone do", "suspend">>>>,
        <<"volume_up", <<"volume up", "aawaz badhao", "awaz badhao", "tez karo", "sound badhao", "volume badao", "increase volume", "increase sound", "increase audio", "raise volume", "raise sound", "raise audio", "louder", "sound up", "audio up", "turn up volume", "turn up sound">>>>,
        <<"volume_down", <<"volume down", "aawaz kam karo", "awaz kam karo", "dheere karo", "sound kam", "volume ghatao", "decrease volume", "decrease sound", "decrease audio", "lower volume", "lower sound", "lower audio", "reduce volume", "reduce sound", "quieter", "sound down", "audio down", "turn down volume", "turn down sound">>>>,
        <<"mute", <<"mute", "silent", "khamosh", "unmute", "silence", "no sound", "toggle mute", "mute audio", "mute sound", "mute volume">>>>,
        <<"time", <<"time", "samay", "samay kya hai", "time kya hai", "baje kya hue", "kitne baje hai">>>>,
        <<"date", <<"date", "tareekh", "din", "aaj ka din", "date kya hai">>>>,
        <<"battery", <<"battery", "charge", "power", "kitni charge hai">>>>,
        <<"system_status", <<"system status", "pc status", "computer status", "system check">>>>,
        <<"open_app", <<"open", "kholo", "start karo", "chalu karo", "run karo">>>>,
        <<"close_app", <<"close", "band karo", "exit", "quit", "band">>>>,
        <<"minimize", <<"minimize", "chhota karo", "niche karo">>>>,
        <<"maximize", <<"maximize", "bada karo", "pura screen">>>>,
        <<"close_window", <<"close window", "window band", "band karo">>>>,
        <<"whatsapp_message", <<"whatsapp", "message bhejo", "msg bhejo", "send message", "sandesh bhejo">>>>,
        <<"whatsapp_call", <<"call", "phone karo", "baat karo", "whatsapp call">>>>,
        <<"move_cursor", <<"move cursor", "cursor move", "mouse move", "pointer move">>>>,
        <<"click", <<"click", "press", "select", "choose">>>>,
        <<"double_click", <<"double click", "do bar click", "double press">>>>,
        <<"right_click", <<"right click", "context menu", "options">>>>,
        <<"scroll_up", <<"scroll up", "upar scroll", "up scroll">>>>,
        <<"scroll_down", <<"scroll down", "neeche scroll", "down scroll">>>>,
        <<"type_text", <<"type", "likho", "enter", "input">>>>,
        <<"press_key", <<"press", "daba", "click key">>>>,
        <<"hotkey", <<"hotkey", "shortcut", "combination", "saath dabao">>>>,
        <<"show_desktop", <<"show desktop", "desktop dikhavo", "sab band karo">>>>,
        <<"snap_left", <<"snap left", "left side", "bayan taraf">>>>,
        <<"snap_right", <<"snap right", "right side", "dayan taraf">>>>,
        <<"open_folder", <<"open folder", "folder kholo", "directory kholo", "explore", "folder open karo">>>>,
        <<"open_downloads", <<"open downloads", "open download", "downloads kholo", "download folder", "downloads", "download">>>>,
        <<"open_documents", <<"open documents", "open document", "documents kholo", "docs kholo", "documents", "document", "docs">>>>,
        <<"open_desktop", <<"open desktop", "desktop kholo", "desktop">>>>,
        <<"open_pictures", <<"open pictures", "open picture", "pictures kholo", "photos kholo", "pictures", "picture", "photos", "photo">>>>,
        <<"open_videos", <<"open videos", "open video", "videos kholo", "movies kholo", "videos", "video", "movies", "movie">>>>,
        <<"open_music", <<"open music", "music kholo", "gaane kholo", "music", "songs", "gaane">>>>,
        <<"open_home", <<"open home", "home kholo", "home directory", "home folder", "home", "main folder">>>>,
        <<"search_files", <<"search file", "file dhoondo", "find file", "dhundho", "search karo">>>>,
        <<"create_folder", <<"create folder", "naya folder", "new folder", "folder banao">>>>,
        <<"delete_file", <<"delete file", "file hatao", "remove file", "delete karo", "hatao">>>>,
        <<"copy_file", <<"copy file", "file copy karo", "duplicate">>>>,
        <<"move_file", <<"move file", "file move karo", "shift karo">>>>,
        <<"rename_file", <<"rename file", "file ka naam badlo", "naam badlo">>>>,
        <<"ocr_image", <<"extract text from image", "image se text nikalo", "ocr image", "text nikalo">>>>,
        <<"ocr_pdf", <<"extract text from pdf", "pdf se text nikalo", "read pdf", "pdf padho">>>>,
        <<"extract_text", <<"extract text", "text nikalo", "copy text", "text copy karo">>>>,
        <<"convert_image", <<"convert image", "image convert karo", "format change karo">>>>,
        <<"resize_image", <<"resize image", "image resize karo", "size badlo", "chhota karo">>>>,
        <<"compress_image", <<"compress image", "image compress karo", "size kam karo">>>>,
        <<"merge_pdfs", <<"merge pdfs", "pdfs jodo", "combine pdfs">>>>,
        <<"pdf_to_images", <<"pdf to images", "pdf ko images mein convert karo">>>>,
        <<"images_to_pdf", <<"images to pdf", "images ko pdf mein convert karo">>>>,
        <<"take_screenshot", <<"take screenshot", "screenshot lo", "screen capture karo", "photo lo">>>>,
        <<"get_clipboard", <<"get clipboard", "clipboard dekhoo", "copy kiya hua dekhoo">>>>,
        <<"set_clipboard", <<"set clipboard", "clipboard mein daalo", "copy karo">>>>,
        <<"media_play", <<"play media", "play pause", "music chalao", "video chalao", "play music", "play song", "play audio", "play video", "start music", "start playing", "start song", "resume music", "resume media", "resume playing", "pause music", "pause song", "pause media", "toggle music", "toggle media">>>>,
        <<"media_next", <<"next track", "agla gaana", "next song", "next music", "skip song", "skip track">>>>,
        <<"media_previous", <<"previous track", "pichla gaana", "previous song", "prev track", "previous music">>>>,
        <<"change_wallpaper", <<"change wallpaper", "wallpaper badlo", "background badlo", "desktop picture">>>>,
        <<"empty_recycle_bin", <<"empty recycle bin", "recycle bin khali karo", "trash saaf karo", "kachra saaf karo">>>>,
        <<"toggle_taskbar", <<"toggle taskbar", "taskbar chhupao", "taskbar dikhao", "taskbar hide", "taskbar show">>>>,
        <<"zoom_in", <<"zoom in", "screen zoom karo", "bada dikhao", "zoom badhao">>>>,
        <<"zoom_out", <<"zoom out", "screen zoom kam karo", "chhota dikhao", "zoom ghatao">>>>,
        <<"batch_pdf", <<"images to pdf", "sare photo pdf banao", "folder pdf banao", "batch pdf">>>>,
        <<"scan_folder", <<"scan folder", "folder scan karo", "file dhoondo folder mein">>>>,
        <<"make_drawing", <<"make drawing", "drawing banao", "paint kholo", "sketch banao">>>>,
        <<"get_selected_text", <<"get selected text", "select kiya hua text", "selected text padho", "text copy karo selection se">>>>,
        <<"google_search", <<"search", "google search", "dhoondo", "dhundo", "pata karo", "khojo", "search karo">>>>,
        <<"open_browser", <<"open browser", "browser kholo", "new tab", "naya tab", "internet kholo">>>>
    >>

(***************************************************************************)
(* BilingualParser                                                         *)
(***************************************************************************)
\* All <<phrase, key>> pairs of a lexicon from entry i on, in source order.
RECURSIVE LexiconPairs(_, _)
LexiconPairs(lexicon, i) ==
    IF i > Len(lexicon) THEN <<>>
    ELSE [j \in 1..Len(lexicon[i][2]) |-> <<lexicon[i][2][j], lexicon[i][1]>>]
         \o LexiconPairs(lexicon, i + 1)

\* The pairs whose phrase did not occur before: the dict's insertion order.
FirstInsertions(pairs) ==
    SelectSeq([i \in 1..Len(pairs) |-> <<pairs[i][1], i>>],
              LAMBDA e : \A j \in 1..(e[2] - 1) : pairs[j][1] # e[1])

\* The key the dict ends with for a phrase: that of its last insertion.
LastKey(pairs, phrase) ==
    pairs[CHOOSE j \in 1..Len(pairs) :
            /\ pairs[j][1] = phrase
            /\ \A k \in (j + 1)..Len(pairs) : pairs[k][1] # phrase][2]

\* The dict as the sequence of its items, given the first insertions.
DictItems(pairs, firsts) ==
    [i \in 1..Len(firsts) |-> <<firsts[i][1], LastKey(pairs, firsts[i][1])>>]

\* _build_command_map: a dict filled in source order. A phrase keeps the
\* position of its first insertion and the key of its last one.
build_command_map(pairs) == DictItems(pairs, FirstInsertions(pairs))

command_map == build_command_map(LexiconPairs(HINDI_COMMANDS, 1))

\* The length of the longest phrase of a map.
MaxPhraseLen(map) ==
    CHOOSE n \in 1..64 :
        /\ \E i \in 1..Len(map) : Len(map[i][1]) = n
        /\ \A i \in 1..Len(map) : Len(map[i][1]) <= n

\* The items with phrases of length n, n-1, ..., 1, each group in dict order.
RECURSIVE SortedFrom(_, _)
SortedFrom(map, n) ==
    IF n = 0 THEN <<>>
    ELSE SelectSeq(map, LAMBDA e : Len(e[1]) = n) \o SortedFrom(map, n - 1)

\* Seeded fault: the items are left in dict order.
Unsorted(map) == map

\* sorted(items, key=len(phrase), reverse=True): a stable sort.
Sorted(map) == SortedFrom(map, MaxPhraseLen(map))

\* sorted_phrases of parse_command
sorted_phrases == Sorted(command_map)

hindi_words ==
    {"kholo", "band", "karo", "chalao", "bhejo", "kaun", "kya", "hai", "samay",
     "tareekh", "din", "aaj", "kal", "suno", "sun", "raha", "mujhe", "tum",
     "aap", "namaste", "shukriya", "dhanyavad", "kaise", "madad", "sakte",
     "ho", "btao", "batao", "dekhna", "ruko", "dheere", "tez", "badhao", "kam",
     "aawaz", "awaz", "par", "ko", "me", "se", "ka", "ki", "aur", "kahan",
     "kab", "kyu", "mausam", "tapman", "garmi", "sardi", "hisab", "jodo",
     "ghatao", "guna", "bhag"}

\* detect_language: no Devanagari character occurs in an ASCII text.
detect_language(text) ==
    IF Words(Lower(text)) \cap hindi_words # {} THEN "hi" ELSE "en"

\* The phrase loop's test for one entry of sorted_phrases.
PhraseMatches(phrase, text_lower) ==
    /\ Contains(text_lower, phrase)
    /\ ~(phrase = "search" /\ Contains(text_lower, "search file"))

\* The entries of sorted the loop's test holds for.
Hits(sorted, text_lower) ==
    { i \in 1..Len(sorted) : PhraseMatches(sorted[i][1], text_lower) }

\* The least member of a set of indices; 0 if there is none.
Least(hits) == IF hits = {} THEN 0 ELSE CHOOSE i \in hits : \A j \in hits : i <= j

\* Index in sorted of the first phrase the loop stops at; 0 if none.
FirstMatch(sorted, text_lower) == Least(Hits(sorted, text_lower))

\* The ASCII members of noise_hindi_words, in source order.
noise_hindi_words ==
    <<"karo", "khol", "chalao", "kholiye", "dikhaiye", "bataiye", "kijiye", "kar">>

\* if clean_after.startswith(word + ' ') ... elif clean_after == word
CleanNoiseFront(clean_after, word) ==
    IF StartsWith(clean_after, word \o " ")
    THEN Strip(SubSeq(clean_after, Len(word) + 2, Len(clean_after)))
    ELSE IF clean_after = word THEN "" ELSE clean_after

\* if clean_after.endswith(' ' + word) ... elif clean_after == word
CleanNoiseBack(clean_after, word) ==
    IF EndsWith(clean_after, " " \o word)
    THEN Strip(SubSeq(clean_after, 1, Len(clean_after) - Len(word) - 1))
    ELSE IF clean_after = word THEN "" ELSE clean_after

\* The body of the inner loop for one noise word.
CleanNoiseWord(clean_after, word) ==
    CleanNoiseFront(CleanNoiseBack(clean_after, word), word)

\* One pass of the inner loop over the noise words; no word changes a text
\* that is empty already.
RECURSIVE CleanNoisePass(_, _)
CleanNoisePass(clean_after, i) ==
    IF clean_after = "" \/ i > Len(noise_hindi_words) THEN clean_after
    ELSE CleanNoisePass(CleanNoiseWord(clean_after, noise_hindi_words[i]), i + 1)

\* for _ in range(2)
CleanNoise(params_after) == CleanNoisePass(CleanNoisePass(params_after, 1), 1)

\* The words of the leading-particle pattern; "search for" and "google search"
\* are shadowed by "search" and "google", which the alternation tries first.
Particles ==
    {"and", "for", "ki", "ko", "search", "google", "open", "start", "with"}

\* The particles a lowered text starts with.
LeadingParticles(lowered) == { w \in Particles : StartsWith(lowered, w \o " ") }

\* The text without the particle found at its start, if one was found.
WithoutParticle(s, found) ==
    IF found = {} THEN Strip(s)
    ELSE Strip(SubSeq(s, Len(CHOOSE w \in found : TRUE) + 1, Len(s)))

\* One re.sub(r'^(?:and|for|...)\s+', '', s, flags=re.IGNORECASE).strip()
StripParticle(s) == WithoutParticle(s, LeadingParticles(Lower(s)))

\* while clean_params != prev_params
RECURSIVE CleanParams(_)
CleanParamsStep(prev_params, clean_params) ==
    IF clean_params = prev_params THEN clean_params ELSE CleanParams(clean_params)

CleanParams(s) == CleanParamsStep(s, StripParticle(s))

\* str.replace(p, ''): every occurrence removed, left to right.
RECURSIVE Remove(_, _)
Remove(t, p) ==
    IF ~Contains(t, p) THEN t
    ELSE LET i == Find(t, p)
         IN  SubSeq(t, 1, i - 1) \o Remove(SubSeq(t, i + Len(p), Len(t)), p)

ContainsAny(t, kws) == \E kw \in kws : Contains(t, kw)

\* A parse result; params "" stands for None (the parser never returns "").
Parsed(key, lang, params) == [command_key |-> key, lang |-> lang, params |-> params]

\* The keyword rules after the two search rules, in source order.
EnglishRules ==
    << <<"shutdown", {"shutdown", "turn off", "power off"}>>,
       <<"restart", {"restart", "reboot"}>>,
       <<"sleep", {"sleep", "suspend"}>>,
       <<"volume_up", {"volume up", "increase volume", "increase sound",
                       "increase audio", "raise volume", "raise sound", "louder"}>>,
       <<"volume_down", {"volume down", "decrease volume", "decrease sound",
                         "decrease audio", "lower volume", "lower sound", "quieter"}>>,
       <<"mute", {"mute", "silence", "no sound", "toggle mute", "unmute"}>>,
       <<"time", {"time", "what time"}>>,
       <<"date", {"date", "what date", "today"}>>,
       <<"battery", {"battery", "charge"}>>,
       <<"system_status", {"system status", "pc status", "status check"}>>,
       <<"media_play", {"play music", "play song", "play audio", "play video",
                        "start music", "start song", "start playing",
                        "resume music", "resume song", "resume media",
                        "resume playing", "pause music", "pause song",
                        "pause media", "toggle music", "toggle media",
                        "play media", "play pause"}>>,
       <<"media_next", {"next track", "next song", "next music", "skip song",
                        "skip track"}>>,
       <<"media_previous", {"previous track", "previous song", "previous music",
                            "prev track", "prev song"}>>,
       <<"take_screenshot", {"take screenshot", "screenshot", "screen capture"}>> >>

RECURSIVE EnglishRuleFrom(_, _, _)
EnglishRuleFrom(i, text_lower, lang) ==
    IF i > Len(EnglishRules) THEN Parsed("unknown", lang, "")
    ELSE IF ContainsAny(text_lower, EnglishRules[i][2])
         THEN Parsed(EnglishRules[i][1], lang, "")
    ELSE EnglishRuleFrom(i + 1, text_lower, lang)

\* Search intent in the browser rule: "if query and any(...)" and a
\* non-empty cleaned query.
BrowserRule(text_lower, lang, query, clean_query) ==
    IF /\ query # ""
       /\ ContainsAny(text_lower, {"search", "new tab", "open"})
       /\ clean_query # ""
    THEN Parsed("google_search", lang, clean_query)
    ELSE Parsed("open_browser", lang, "")

\* The query of the browser rule.
BrowserQuery(text_lower) ==
    Strip(Remove(Remove(Remove(Remove(text_lower, "new tab"), "open browser"),
                        "open chrome"), "search"))

\* "Try English patterns": the fallback when no lexicon phrase matched.
EnglishPatterns(text_lower, lang) ==
    IF ContainsAny(text_lower, {"google search", "search google for", "search for"})
    THEN Parsed("google_search", lang,
                Strip(Remove(Remove(Remove(text_lower, "google search"),
                                    "search google for"), "search for")))
    ELSE IF ContainsAny(text_lower, {"new tab", "open browser", "open chrome", "search"})
    THEN BrowserRule(text_lower, lang, BrowserQuery(text_lower),
                     CleanParams(BrowserQuery(text_lower)))
    ELSE EnglishRuleFrom(1, text_lower, lang)

\* "Hindi-specific cleaning" of the parameters, or params_after as it is.
PhraseParams(lang, params_before, params_after, clean_after) ==
    IF lang = "hi"
    THEN IF params_before # "" /\ clean_after # ""
         THEN params_before \o " " \o clean_after
         ELSE IF params_before # "" THEN params_before
         ELSE IF clean_after # "" THEN clean_after ELSE params_after
    ELSE params_after

\* "Search intent" override and the returned tuple.
PhraseOutcome(command_key, text_lower, lang, clean_params) ==
    IF /\ clean_params # ""
       /\ command_key \in {"open_browser", "open_app"}
       /\ (Contains(text_lower, "search") \/ Contains(text_lower, "new tab"))
    THEN Parsed("google_search", lang, clean_params)
    ELSE Parsed(command_key, lang, clean_params)

\* The loop body from params_before and params_after on.
PhraseSplit(command_key, text_lower, lang, params_before, params_after) ==
    PhraseOutcome(command_key, text_lower, lang,
                  CleanParams(PhraseParams(lang, params_before, params_after,
                                           CleanNoise(params_after))))

\* The loop body once phrase was found at phrase_index.
PhraseAt(text, text_lower, lang, phrase, command_key, phrase_index) ==
    PhraseSplit(command_key, text_lower, lang,
                Strip(SubSeq(text, 1, phrase_index - 1)),
                Strip(SubSeq(text, phrase_index + Len(phrase), Len(text))))

\* The body of the phrase loop for the item <<phrase, command_key>> it matched.
PhraseResult(text, text_lower, lang, item) ==
    PhraseAt(text, text_lower, lang, item[1], item[2], Find(text_lower, item[1]))

\* parse_command once the phrase loop stopped at entry k (0: it ran through).
ParseMatch(text, text_lower, lang, k) ==
    IF k # 0 THEN PhraseResult(text, text_lower, lang, sorted_phrases[k])
    ELSE EnglishPatterns(text_lower, lang)

\* parse_command after "text_lower = text.lower().strip()".
ParseLower(text, text_lower) ==
    ParseMatch(text, text_lower, detect_language(text_lower),
               FirstMatch(sorted_phrases, text_lower))

\* parse_command(text) -> (command_key, language, parameters)
parse_command(text) == ParseLower(text, Strip(Lower(text)))

(***************************************************************************)
(* Bounds of the model.                                                    *)
(***************************************************************************)
\* Interactive handle_command calls (REST /api/command, WebSocket "command").
MaxCalls == 2
\* run_macro tasks created.
MaxRuns == 1
\* run_macro tasks created by the steps of runs.
MaxNested == 3
\* Threads start_scheduler creates at most, when followed step by step.
MaxThreads == 2
\* The last instant the clock reaches while threads are followed step by step.
MaxThreadTime == 2
\* toggle_macro calls.
MaxToggles == 1
\* How late the loop may run a sleeping task that is due.
MaxLate == 1
\* The clock stops here.
MaxTime == 400
\* parse_command calls
MaxParses == 3

\* config.py: CONFIRMATION_TIMEOUT (seconds).
CONFIRMATION_TIMEOUT == 30
\* security.py cleanup_old_confirmations: timedelta(minutes=5), in seconds.
CLEANUP_GRACE == 300

VARIABLES
    now,                    \* datetime.now() and the loop's clock, in seconds
    pending_confirmations,  \* SecurityManager.pending_confirmations: id -> record
    confirmation_callbacks, \* SecurityManager.confirmation_callbacks: ids with a callback
    timers,                 \* sleeping _handle_timeout tasks: id -> time the sleep ends
    calls,                  \* interactive handle_command calls: number -> record
    n_calls,                \* interactive calls started so far
    macros,                 \* AutomationManager.macros, in dict order
    n_toggles,              \* toggle_macro calls so far
    runs,                   \* run_macro tasks, in creation order
    true_returns,           \* id -> number of confirm_command calls that returned True
    callback_calls,         \* id -> number of times the timeout callback was awaited
    authorized,             \* id -> number of confirmed=True invocations by /api/confirm
    reexecuted,             \* id -> the argument /api/confirm gave the handler it re-invoked
    direct_authorized,      \* a handler got confirmed=True from an endpoint of its own
    requests,               \* /api/command: call number -> the request's command and language
    parses,                 \* parser.parse_command calls: the text and what was returned
    tasks,                  \* AutomationManager.tasks: id -> record
    n_tasks,                \* task ids handed out so far
    task_callbacks,         \* AutomationManager.task_callbacks: ids with a callback
    running,                \* AutomationManager.running
    jobs,                   \* the job list of the schedule module, in order of registration
    sched_pc,               \* where the scheduler thread is
    iter_size,              \* len(self.tasks) when the thread's iteration was set up
    polled,                 \* schedule.run_pending() has run at this instant
    threads,                \* the _run_scheduler threads followed step by step, in order of creation
    fires,                  \* the _execute_task calls of the latest run_pending()
    n_ops                   \* create, update, toggle and delete calls so far

\* The state of the scheduler and what is recorded about it.
schedVars == <<tasks, n_tasks, task_callbacks, running, jobs, sched_pc, iter_size,
               polled, threads, fires, n_ops>>

vars == <<now, pending_confirmations, confirmation_callbacks, timers, calls, n_calls,
          macros, n_toggles, runs, true_returns, callback_calls,
          authorized, reexecuted, direct_authorized, requests, parses, schedVars>>

\* The state of the SecurityManager and what is recorded about it.
secVars == <<pending_confirmations, confirmation_callbacks, timers, true_returns,
             callback_calls, authorized, reexecuted>>

\* The state of the dispatcher and the macro engine.
cmdVars == <<calls, n_calls, macros, n_toggles, runs>>

\* uuid.uuid4() hands out an id never seen before. Which one is immaterial:
\* a confirmation gets the number of the handle_command call that asked for
\* it. ConfIds are the ids of the interactive calls, the ones a client is told.
ConfIds == 1..MaxCalls

\* Ids a caller may present: every id that can be minted and one that never is.
UnknownId == 0
PresentedIds == ConfIds \cup {UnknownId}

Languages == {"en", "hi"}

(***************************************************************************)
(* Results.                                                                *)
(***************************************************************************)
\* The dict handle_command returns. has_meta: command_key, language and
\* timestamp were added ("Add metadata"). response and error are filled in
\* for the results handle_command builds itself in its last branch.
NoResult ==
    [success |-> FALSE, action_type |-> "", requires_confirmation |-> FALSE,
     confirmation_id |-> 0, command_key |-> "", language |-> "", has_meta |-> FALSE,
     response |-> "", error |-> ""]

Restrict(f, S) == [x \in S |-> f[x]]
Put(f, k, v) == [x \in DOMAIN f \cup {k} |-> IF x = k THEN v ELSE f[x]]
EmptyMap == [x \in {} |-> 0]

(***************************************************************************)
(* SecurityManager                                                         *)
(***************************************************************************)
\* request_confirmation: the record stored under the fresh id.
NewConfirmation(command_key, command_text, language, details, t) ==
    [command_key |-> command_key, command_text |-> command_text,
     language |-> language, details |-> details,
     expires_at |-> t + CONFIRMATION_TIMEOUT, confirmed |-> "None"]

\* Seeded fault: the check for an earlier decision left out.
AlreadyDecidedSkipped(confirmation) == FALSE

\* confirm_command, "Check if already decided".
AlreadyDecided(confirmation) == confirmation.confirmed # "None"

\* Seeded fault: the expiry check left out.
IsExpiredSkipped(confirmation, t) == FALSE

\* confirm_command, "Check if expired".
IsExpired(confirmation, t) == t > confirmation.expires_at

\* The value confirm_command(confirmation_id, approved) returns at time t.
confirm_command_returns(pc, confirmation_id, t) ==
    /\ confirmation_id \in DOMAIN pc
    /\ ~AlreadyDecided(pc[confirmation_id])
    /\ ~IsExpired(pc[confirmation_id], t)

\* The value confirm_command stores in the record it decides.
Decision(approved) == IF approved THEN "True" ELSE "False"

\* The table confirm_command(confirmation_id, approved) leaves at time t.
confirm_command_table(pc, confirmation_id, approved, t) ==
    IF confirmation_id \notin DOMAIN pc THEN pc
    ELSE IF AlreadyDecided(pc[confirmation_id]) THEN pc
    ELSE IF IsExpired(pc[confirmation_id], t)
         THEN [pc EXCEPT ![confirmation_id].confirmed = "False"]
    ELSE [pc EXCEPT ![confirmation_id].confirmed = Decision(approved)]

\* Seeded fault: the timer overwrites a decision.
TimesOutDecided(pc, confirmation_id) == confirmation_id \in DOMAIN pc

\* _handle_timeout after the sleep: does it time the record out?
TimesOut(pc, confirmation_id) ==
    /\ confirmation_id \in DOMAIN pc
    /\ pc[confirmation_id].confirmed = "None"

\* _handle_timeout, "Notify via callback if registered".
Notifies(callbacks, confirmation_id) == confirmation_id \in callbacks

\* cleanup_old_confirmations: the ids it deletes at time t.
ExpiredForCleanup(pc, t) ==
    { cid \in DOMAIN pc : t > pc[cid].expires_at + CLEANUP_GRACE }

\* _handle_timeout(confirmation_id), from the end of its sleep on.
HandleTimeout(confirmation_id) ==
    /\ confirmation_id \in DOMAIN timers
    /\ now >= timers[confirmation_id]
    /\ timers' = Restrict(timers, DOMAIN timers \ {confirmation_id})
    /\ pending_confirmations' =
          IF TimesOut(pending_confirmations, confirmation_id)
          THEN [pending_confirmations EXCEPT ![confirmation_id].confirmed = "False"]
          ELSE pending_confirmations
    /\ callback_calls' =
          IF /\ TimesOut(pending_confirmations, confirmation_id)
             /\ Notifies(confirmation_callbacks, confirmation_id)
          THEN [callback_calls EXCEPT ![confirmation_id] = @ + 1]
          ELSE callback_calls
    /\ UNCHANGED <<now, confirmation_callbacks, true_returns, authorized, reexecuted, cmdVars,
                   direct_authorized, requests, parses, schedVars>>

\* register_callback(confirmation_id, callback), by the caller that was handed
\* the id.
RegisterCallback(confirmation_id) ==
    /\ confirmation_id \in DOMAIN pending_confirmations
    /\ confirmation_id \notin confirmation_callbacks
    /\ confirmation_callbacks' = confirmation_callbacks \cup {confirmation_id}
    /\ UNCHANGED <<now, pending_confirmations, timers, true_returns, callback_calls,
                   authorized, reexecuted, cmdVars, direct_authorized, requests, parses, schedVars>>

\* cleanup_old_confirmations()
CleanupOldConfirmations ==
    LET expired == ExpiredForCleanup(pending_confirmations, now)
    IN  /\ expired # {}
        /\ pending_confirmations' =
              Restrict(pending_confirmations, DOMAIN pending_confirmations \ expired)
        /\ confirmation_callbacks' = confirmation_callbacks \ expired
        /\ UNCHANGED <<now, timers, true_returns, callback_calls, authorized, reexecuted, cmdVars,
                       direct_authorized, requests, parses, schedVars>>

(***************************************************************************)
(* AutomationManager: macros                                               *)
(***************************************************************************)
\* One entry of Macro.commands; parameters is a set of <<key, value>> pairs.
Cmd(command, delay, parameters) ==
    [command |-> command, delay |-> delay, parameters |-> parameters]

\* The macro table once lifespan() has run: the two presets of
\* create_preset_macros and one macro a user created through create_macro.
InitialMacros ==
    << [id |-> 1, name |-> "Work Mode", trigger |-> "voice",
        trigger_phrase |-> "work mode", enabled |-> TRUE, run_count |-> 0,
        commands |-> << Cmd("open_app", 2, {<<"app", "chrome">>}),
                        Cmd("open_app", 2, {<<"app", "vscode">>}),
                        Cmd("open_app", 2, {<<"app", "spotify">>}) >>],
       [id |-> 2, name |-> "End Work Day", trigger |-> "voice",
        trigger_phrase |-> "end work", enabled |-> TRUE, run_count |-> 0,
        commands |-> << Cmd("close_app", 1, {<<"app", "vscode">>}),
                        Cmd("show_desktop", 0, {}) >>],
       [id |-> 3, name |-> "Night", trigger |-> "voice",
        trigger_phrase |-> "good night", enabled |-> TRUE, run_count |-> 0,
        commands |-> << Cmd("create folder", 2, {}), Cmd("what time", 0, {}) >>] >>

\* A macro a user created through create_macro: three steps whose delays
\* are 0, 2 and 0.
ClockMacro ==
    [id |-> 4, name |-> "Clock", trigger |-> "voice",
     trigger_phrase |-> "clock check", enabled |-> TRUE, run_count |-> 0,
     commands |-> << Cmd("what time", 0, {}), Cmd("what time", 2, {}),
                     Cmd("what time", 0, {}) >>]

\* A table of macros users created through create_macro. The second step of
\* Movie holds Movie's own trigger phrase; the steps of Day and Night hold
\* each other's; the step of Clock holds none.
LoopMacros ==
    << [id |-> 1, name |-> "Movie", trigger |-> "voice",
        trigger_phrase |-> "movie", enabled |-> TRUE, run_count |-> 0,
        commands |-> << Cmd("what time", 0, {}), Cmd("play movie", 0, {}) >>],
       [id |-> 2, name |-> "Day", trigger |-> "voice",
        trigger_phrase |-> "day mode", enabled |-> TRUE, run_count |-> 0,
        commands |-> << Cmd("night mode", 1, {}) >>],
       [id |-> 3, name |-> "Night", trigger |-> "voice",
        trigger_phrase |-> "night mode", enabled |-> TRUE, run_count |-> 0,
        commands |-> << Cmd("day mode", 0, {}) >>],
       [id |-> 4, name |-> "Clock", trigger |-> "voice",
        trigger_phrase |-> "clock check", enabled |-> TRUE, run_count |-> 0,
        commands |-> << Cmd("what time", 0, {}) >>] >>

\* The number of macros of a table drawn at the start.
MaxMacros == 2

\* What create_macro is given for a macro of such a table: the trigger kind,
\* the trigger phrase (the default is ""), enabled.
MacroChoices == {"voice", "hotkey", "manual"} \X {"", "NIGHT", "good night"} \X BOOLEAN

\* The tables of MaxMacros macros create_macro builds, in dict order.
MacroTables ==
    { [i \in 1..MaxMacros |->
          [id |-> i, name |-> "m", trigger |-> f[i][1], trigger_phrase |-> f[i][2],
           enabled |-> f[i][3], run_count |-> 0,
           commands |-> << Cmd("what time", 0, {}) >>]] :
      f \in [1..MaxMacros -> MacroChoices] }

\* The longest macro's number of steps.
MaxSteps ==
    CHOOSE n \in 0..8 :
        /\ \E i \in 1..Len(InitialMacros) : Len(InitialMacros[i].commands) = n
        /\ \A i \in 1..Len(InitialMacros) : Len(InitialMacros[i].commands) <= n

\* The number of the handle_command call step idx of run r makes.
StepCall(r, idx) == MaxCalls + MaxSteps * (r - 1) + idx

\* The ids a confirmation can get.
MintedIds == 1..StepCall(MaxRuns + MaxNested, MaxSteps)

MacroIds == {InitialMacros[i].id : i \in 1..Len(InitialMacros)}

\* Position of macro_id in the table; 0 if it is not there.
MacroIndex(ms, macro_id) ==
    IF \E i \in 1..Len(ms) : ms[i].id = macro_id
    THEN CHOOSE i \in 1..Len(ms) : ms[i].id = macro_id
    ELSE 0

\* Seeded fault: the test without "macro.enabled".
TriggerMatchesDisabled(macro, trigger_phrase) ==
    /\ macro.trigger = "voice"
    /\ Contains(Lower(trigger_phrase), Lower(macro.trigger_phrase))

\* Seeded fault: the test without "macro.trigger == 'voice'".
TriggerMatchesAnyKind(macro, trigger_phrase) ==
    /\ macro.enabled
    /\ Contains(Lower(trigger_phrase), Lower(macro.trigger_phrase))

\* The test of find_macro_by_trigger's loop for one macro.
TriggerMatches(macro, trigger_phrase) ==
    /\ macro.enabled
    /\ macro.trigger = "voice"
    /\ Contains(Lower(trigger_phrase), Lower(macro.trigger_phrase))

\* find_macro_by_trigger: the id of the first match in dict order; 0 for None.
find_macro_by_trigger(ms, trigger_phrase) ==
    LET hits == { i \in 1..Len(ms) : TriggerMatches(ms[i], trigger_phrase) }
    IN  IF hits = {} THEN 0
        ELSE ms[CHOOSE i \in hits : \A j \in hits : i <= j].id

\* toggle_macro(macro_id)
ToggleMacro(macro_id) ==
    /\ MacroIndex(macros, macro_id) # 0
    /\ n_toggles < MaxToggles
    /\ n_toggles' = n_toggles + 1
    /\ macros' = [macros EXCEPT ![MacroIndex(macros, macro_id)].enabled = ~@]
    /\ UNCHANGED <<now, secVars, calls, n_calls, runs, direct_authorized, requests, parses, schedVars>>

(***************************************************************************)
(* main.py: handle_command                                                 *)
(***************************************************************************)
\* The action keys handle_command has a branch for.
HandlerKeys ==
    {"system_status", "time", "date", "battery", "shutdown", "restart", "sleep",
     "volume_up", "volume_down", "open_app", "close_app", "minimize", "maximize",
     "activate_window", "focus_window", "close_window", "center_window",
     "show_desktop", "snap_left", "snap_right", "move_cursor", "click",
     "double_click", "right_click", "type_text", "scroll_up", "scroll_down",
     "whatsapp_message", "whatsapp_call", "open_folder", "open_downloads",
     "open_documents", "open_desktop", "open_pictures", "search_files",
     "create_folder", "delete_file", "ocr_image", "extract_text", "ocr_pdf",
     "convert_image", "resize_image", "take_screenshot", "get_clipboard",
     "set_clipboard", "media_play", "media_next", "media_previous",
     "change_wallpaper", "empty_recycle_bin", "toggle_taskbar", "zoom_out",
     "toggle_icons", "set_theme", "brightness_up", "brightness_down",
     "network_info", "uptime", "google_search", "weather", "batch_pdf",
     "scan_folder", "make_drawing", "get_selected_text", "read_pdf", "run_macro",
     "automation_status", "narrate_screen", "screen_summary"}

\* Branches that answer {'success': False, 'error': ...} when params is empty.
NeedsParams ==
    {"open_app", "close_app", "activate_window", "focus_window", "type_text",
     "whatsapp_call", "search_files", "create_folder", "delete_file", "ocr_pdf",
     "convert_image", "resize_image", "set_clipboard", "change_wallpaper",
     "set_theme", "google_search", "batch_pdf", "scan_folder", "read_pdf",
     "run_macro"}

\* Handlers called without confirmed=True that answer requires_confirmation.
AlwaysSensitive == {"shutdown", "restart", "sleep", "empty_recycle_bin"}

\* params as handle_command holds it: the parser's string or, after the
\* override, the macro step's dict.
StrParams(s) == [isdict |-> FALSE, str |-> s, dict |-> {}]
DictParams(d) == [isdict |-> TRUE, str |-> "", dict |-> d]
Truthy(params) == IF params.isdict THEN params.dict # {} ELSE params.str # ""

\* "Apply parameters override (from macros)". str has no update(): the
\* merge raises AttributeError when both sides are non-empty.
OverrideRaises(parsed_params, override_params) ==
    override_params # {} /\ parsed_params # ""

OverrideParams(parsed_params, override_params) ==
    IF override_params # {} THEN DictParams(override_params)
    ELSE StrParams(parsed_params)

\* What the branch for command_key does with params:
\*   "confirm"  the handler answers requires_confirmation (success False)
\*   "missing"  the branch answers an error without calling a handler
\*   "fixed"    the branch builds a success result itself
\*   "handler"  a handler runs; its success flag is the handler's business
\*   "fallback" no branch: llm_module.get_response is consulted
Branch(command_key, params) ==
    IF command_key \notin HandlerKeys THEN "fallback"
    ELSE IF command_key \in AlwaysSensitive THEN "confirm"
    ELSE IF command_key \in {"close_app", "delete_file"} /\ Truthy(params) THEN "confirm"
    ELSE IF command_key = "close_window" /\ ~Truthy(params) THEN "confirm"
    ELSE IF command_key \in NeedsParams /\ ~Truthy(params) THEN "missing"
    ELSE IF command_key \in {"run_macro", "automation_status"} THEN "fixed"
    ELSE "handler"

\* Does the branch suspend the call? A handler that works on the machine or
\* the language model may; a confirmation request, a missing parameter and
\* a result built in place are answered without an await that yields.
Suspends(branch) == branch \in {"handler", "fallback"}

\* What the awaited part of a branch can come back with.
Outcomes(branch) ==
    CASE branch = "handler" -> {"ok", "fail"}
      [] branch = "fallback" -> {"text", "none"}
      [] OTHER -> {"done"}

\* The result of the last branch: llm_module.get_response came back with a
\* text (llm_response) or with nothing.
ConversationResult ==
    [NoResult EXCEPT !.success = TRUE, !.action_type = "CONVERSATION",
                     !.response = "llm_response"]
UnknownResult ==
    [NoResult EXCEPT !.action_type = "UNKNOWN",
                     !.response = "command_not_understood",
                     !.error = "Command not recognized"]

\* Seeded fault: the last branch answers success whatever came back.
BranchResultAlwaysSuccess(branch, outcome) ==
    CASE branch = "confirm" ->
            [NoResult EXCEPT !.requires_confirmation = TRUE]
      [] branch = "missing" -> NoResult
      [] branch = "fixed" -> [NoResult EXCEPT !.success = TRUE]
      [] branch = "handler" -> [NoResult EXCEPT !.success = (outcome = "ok")]
      [] branch = "fallback" ->
            IF outcome = "text" THEN ConversationResult
            ELSE [UnknownResult EXCEPT !.success = TRUE]

\* result as the branch leaves it, before post-processing.
BranchResult(branch, outcome) ==
    CASE branch = "confirm" ->
            [NoResult EXCEPT !.requires_confirmation = TRUE]
      [] branch = "missing" -> NoResult
      [] branch = "fixed" -> [NoResult EXCEPT !.success = TRUE]
      [] branch = "handler" -> [NoResult EXCEPT !.success = (outcome = "ok")]
      [] branch = "fallback" ->
            IF outcome = "text" THEN ConversationResult ELSE UnknownResult

\* Seeded fault: no confirmation is ever minted.
NeedsConfirmationNever(res) == FALSE

\* "Post-process result": is a confirmation minted for this result?
NeedsConfirmation(res) == res.requires_confirmation /\ res.confirmation_id = 0

\* "Add metadata"
WithMetadata(res, command_key, current_lang) ==
    [res EXCEPT !.command_key = command_key, !.language = current_lang,
                !.has_meta = TRUE]

\* The return value of the macro trigger branch.
MacroStartedResult ==
    [NoResult EXCEPT !.success = TRUE, !.action_type = "MACRO_STARTED"]

\* The texts an interactive caller sends: commands that ask for a
\* confirmation, and texts with a trigger phrase in them.
SensitiveCommands == {"shutdown"}
TriggerCommands == {"good night shutdown", "end work"}
ClockCommands == {"clock check"}
\* The texts /api/command is sent: one for each way handle_command returns
\* (a confirmation request in English and in Hindi, a handler, a missing
\* parameter, the fallback, a macro).
DispatchCommands ==
    {"shutdown", "band karo", "what time", "create folder", "hello there", "end work"}
\* Texts tried against tables of macros of every kind.
MatchTexts == {"good night", "Good Night now", "hi"}
\* Texts given to the parser: a phrase alone, a phrase with more text, in
\* capitals, with a longer phrase of another key over it, a phrase the
\* lexicon lists under several keys, a text with no phrase in it.
ParseTexts ==
    {"play music", "play music kholo", "Play Music now", "open browser search cats",
     "right click now", "band karo", "press", "search karo", "click", "music",
     "hello there", "search file report"}
\* The texts sent with the macros of LoopMacros in the table: one for each
\* trigger phrase a chain of runs starts from.
LoopCommands == {"movie night", "day mode", "clock check"}
\* Texts whose handler asks for a confirmation about a target.
TargetCommands == {"close chrome", "delete file report"}
Commands ==
    SensitiveCommands \cup TriggerCommands \cup ClockCommands \cup DispatchCommands
        \cup MatchTexts \cup ParseTexts \cup LoopCommands
        \cup TargetCommands

\* Every text handle_command is called with: the callers' and the macro steps'.
Texts ==
    Commands \cup { InitialMacros[i].commands[j].command :
                      <<i, j>> \in { ij \in (1..Len(InitialMacros)) \X (1..3) :
                                      ij[2] <= Len(InitialMacros[ij[1]].commands) } }
             \cup { LoopMacros[i].commands[j].command :
                      <<i, j>> \in { ij \in (1..Len(LoopMacros)) \X (1..3) :
                                      ij[2] <= Len(LoopMacros[ij[1]].commands) } }

\* Seeded fault: the parser keeps the language detected in its previous text.
ParseRemembering ==
    [text \in Texts |->
        IF parses = <<>> THEN parse_command(text)
        ELSE [parse_command(text) EXCEPT
                !.lang = parse_command(parses[Len(parses)].text).lang]]

\* parser.parse_command on each of them.
Parse == [text \in Texts |-> parse_command(text)]

\* handle_command up to its first await, given what the parser and
\* find_macro_by_trigger returned.
\*   kind "raise"    the override merge raised
\*   kind "macro"    a macro matched: run_macro task created, result returned
\*   kind "dispatch" the branch for command_key is entered
EntryOf(parsed, macro, override_params) ==
    IF OverrideRaises(parsed.params, override_params)
    THEN [kind |-> "raise", macro |-> 0, command_key |-> parsed.command_key,
          current_lang |-> parsed.lang, params |-> StrParams(parsed.params)]
    ELSE [kind |-> IF macro # 0 THEN "macro" ELSE "dispatch",
          macro |-> macro, command_key |-> parsed.command_key,
          current_lang |-> parsed.lang,
          params |-> OverrideParams(parsed.params, override_params)]

\* handle_command up to its first await: parse, override, macro trigger.
Entry(text, language, override_params) ==
    EntryOf(Parse[text], find_macro_by_trigger(macros, text), override_params)

\* A handle_command call; the language argument is not used after the
\* first part. consulted is the number of llm_module.get_response calls the
\* call makes: one, in the last branch. uuid is the id a confirmation for the call gets, kind tells the branch it took ("macro": the
\* trigger branch, with macro the macro it started; "dispatch": the branch
\* of command_key), returned whether it ended and result what it returned.
Call(text, entry, uuid) ==
    [text |-> text, uuid |-> uuid, kind |-> entry.kind,
     macro |-> entry.macro, command_key |-> entry.command_key,
     current_lang |-> entry.current_lang, params |-> entry.params,
     consulted |-> IF entry.kind = "dispatch"
                      /\ Branch(entry.command_key, entry.params) = "fallback"
                   THEN 1 ELSE 0,
     returned |-> FALSE, result |-> NoResult]

\* The call ended with res.
Return(call, res) == [call EXCEPT !.returned = TRUE, !.result = res]

\* A run_macro task created by asyncio.create_task. parent is the run whose
\* step created it through macro_cmd_callback, 0 for the run an interactive
\* call created. invoked lists the steps
\* the callback was called for, results what each call came to, done_at is
\* the time the last call came back.
NewRun(macro_id, language, parent) ==
    [macro |-> macro_id, language |-> language, parent |-> parent,
     phase |-> "created", idx |-> 0,
     wake |-> 0, call |-> <<>>, invoked |-> <<>>, results |-> <<>>,
     done_at |-> 0, invoked_at |-> 0, ret |-> "none"]

\* "Post-process result" and "Add metadata": the dict handle_command returns
\* for a call whose branch left res.
FinalResult(call, res) ==
    WithMetadata(IF NeedsConfirmation(res)
                 THEN [res EXCEPT !.confirmation_id = call.uuid] ELSE res,
                 call.command_key, call.current_lang)

\* The argument the branches for close_app and delete_file give the handler:
\* params.get('app', str(params)) for a dict, str(params) or params itself
\* for the parser's string.
HandlerTarget(command_key, params) ==
    IF ~params.isdict THEN params.str
    ELSE IF command_key = "close_app" /\ \E e \in params.dict : e[1] = "app"
         THEN (CHOOSE e \in params.dict : e[1] = "app")[2]
    ELSE "str(params)"

\* res.get('details', {}): the results of the handlers name their target
\* under 'app_name', 'file' and 'confirmation_context'; none has 'details'.
ResultDetails(res) == IF "details" \in DOMAIN res THEN res.details ELSE EmptyMap

\* details.update(det)
Updated(details, det) ==
    IF DOMAIN det = {} THEN details
    ELSE [k \in DOMAIN details \cup DOMAIN det |->
             IF k \in DOMAIN det THEN det[k] ELSE details[k]]

\* "Post-process result": security.request_confirmation when the result asks
\* for it, with the timer task it creates.
PostProcess(call, res) ==
    IF NeedsConfirmation(res)
    THEN /\ pending_confirmations' =
               Put(pending_confirmations, call.uuid,
                   NewConfirmation(call.command_key, call.text, call.current_lang,
                                   Updated([command_key |-> call.command_key,
                                            params |-> call.params,
                                            language |-> call.current_lang],
                                           ResultDetails(res)), now))
         /\ timers' = Put(timers, call.uuid, now + CONFIRMATION_TIMEOUT)
         /\ callback_calls' = Put(callback_calls, call.uuid, 0)
         /\ authorized' = Put(authorized, call.uuid, 0)
         /\ UNCHANGED <<confirmation_callbacks, true_returns, reexecuted>>
    ELSE UNCHANGED secVars

\* The result of a branch that does not suspend.
Immediate(call) == BranchResult(Branch(call.command_key, call.params), "done")

\* An interactive handle_command call with entry as its first part: the
\* macro trigger branch returns at once, a branch that suspends is awaited,
\* any other branch runs through post-processing to the return.
EnterCommand(c, call, language) ==
    IF call.kind = "macro"
    THEN /\ Len(runs) < MaxRuns
         /\ runs' = Append(runs, NewRun(call.macro, language, 0))
         /\ calls' = Put(calls, c, Return(call, MacroStartedResult))
         /\ UNCHANGED secVars
    ELSE IF Suspends(Branch(call.command_key, call.params))
    THEN /\ calls' = Put(calls, c, call)
         /\ UNCHANGED <<runs, secVars>>
    ELSE /\ PostProcess(call, Immediate(call))
         /\ calls' = Put(calls, c, Return(call, FinalResult(call, Immediate(call))))
         /\ UNCHANGED runs

\* handle_command(websocket, command, language) called by /api/command or the
\* WebSocket endpoint, up to its first await that yields or to its return.
HandleCommand(text, language) ==
    /\ n_calls < MaxCalls
    /\ n_calls' = n_calls + 1
    /\ EnterCommand(n_calls + 1, Call(text, Entry(text, language, {}), n_calls + 1),
                    language)
    /\ UNCHANGED <<now, macros, n_toggles, direct_authorized, requests, parses, schedVars>>

\* parser.parse_command(text): the parser is read, nothing of it is written.
ParseCommand(text) ==
    /\ Len(parses) < MaxParses
    /\ parses' = Append(parses, [text |-> text, parsed |-> Parse[text]])
    /\ UNCHANGED <<now, secVars, cmdVars, direct_authorized, requests, schedVars>>

\* POST /api/command with {"command": command, "language": language}:
\* execute_command hands both to handle_command.
ExecuteCommand(command, language) ==
    /\ n_calls < MaxCalls
    /\ n_calls' = n_calls + 1
    /\ requests' = Put(requests, n_calls + 1,
                       [command |-> command, language |-> language])
    /\ EnterCommand(n_calls + 1,
                    Call(command, Entry(command, language, {}), n_calls + 1),
                    language)
    /\ UNCHANGED <<now, macros, n_toggles, direct_authorized, parses, schedVars>>

\* The rest of an interactive handle_command call: the awaited branch comes
\* back with res, the result is post-processed and returned.
ReturnCommand(c, res) ==
    /\ PostProcess(calls[c], res)
    /\ calls' = [calls EXCEPT ![c] = Return(@, FinalResult(@, res))]

HandlerReturns(c) ==
    /\ c \in DOMAIN calls
    /\ ~calls[c].returned
    /\ \E outcome \in Outcomes(Branch(calls[c].command_key, calls[c].params)) :
          ReturnCommand(c, BranchResult(Branch(calls[c].command_key, calls[c].params),
                                        outcome))
    /\ UNCHANGED <<now, n_calls, macros, n_toggles, runs, direct_authorized, requests, parses, schedVars>>

(***************************************************************************)
(* main.py: the REST endpoints that pass confirmed=True                    *)
(***************************************************************************)
\* The command keys /api/confirm re-executes.
ReexecutedKeys ==
    {"shutdown", "restart", "sleep", "close_app", "empty_recycle_bin",
     "delete_file", "whatsapp_send_desktop"}

\* /api/confirm, "If approved, execute the command": is a handler called with
\* confirmed=True? success is what security.confirm_command returned.
Reexecutes(success, approved, command_key) ==
    success /\ approved /\ command_key \in ReexecutedKeys

\* details['details'].get(key, '')
DetailsGet(confirmation, key) ==
    IF key \in DOMAIN confirmation.details THEN confirmation.details[key] ELSE ""

\* /api/confirm, "Re-execute with confirmed flag": the target the handler is
\* given, "" for the handlers that take none.
ReexecutionTarget(confirmation) ==
    CASE confirmation.command_key = "close_app" -> DetailsGet(confirmation, "app_name")
      [] confirmation.command_key = "delete_file" -> DetailsGet(confirmation, "file_path")
      [] confirmation.command_key = "whatsapp_send_desktop" ->
            DetailsGet(confirmation, "contact")
      [] OTHER -> ""

\* POST /api/confirm/{confirmation_id} with {"approved": approved}
ConfirmEndpoint(confirmation_id, approved) ==
    LET known == confirmation_id \in DOMAIN pending_confirmations
        success == confirm_command_returns(pending_confirmations, confirmation_id, now)
    IN  /\ pending_confirmations' =
              IF known
              THEN confirm_command_table(pending_confirmations, confirmation_id,
                                         approved, now)
              ELSE pending_confirmations
        /\ true_returns' =
              IF known /\ success
              THEN [true_returns EXCEPT ![confirmation_id] = @ + 1]
              ELSE true_returns
        /\ authorized' =
              IF /\ known
                 /\ Reexecutes(success, approved,
                               pending_confirmations[confirmation_id].command_key)
              THEN [authorized EXCEPT ![confirmation_id] = @ + 1]
              ELSE authorized
        /\ reexecuted' =
              IF /\ known
                 /\ Reexecutes(success, approved,
                               pending_confirmations[confirmation_id].command_key)
              THEN Put(reexecuted, confirmation_id,
                       ReexecutionTarget(pending_confirmations[confirmation_id]))
              ELSE reexecuted
        /\ UNCHANGED <<now, confirmation_callbacks, timers, callback_calls, cmdVars,
                       direct_authorized, requests, parses, schedVars>>

\* The sensitive actions with an endpoint of their own: /api/apps/close,
\* /api/files/delete, /api/desktop/recycle-bin/empty, /api/whatsapp/send.
DirectKeys == {"close_app", "delete_file", "empty_recycle_bin", "whatsapp_send_desktop"}

\* One of those endpoints called with {"confirmed": confirmed}: the flag goes
\* to the handler as it came.
DirectEndpoint(key, confirmed) ==
    /\ direct_authorized' = (direct_authorized \/ confirmed)
    /\ UNCHANGED <<now, secVars, cmdVars, requests, parses, schedVars>>

(***************************************************************************)
(* AutomationManager: scheduled tasks and the scheduler thread             *)
(*                                                                         *)
(* Time is counted in instants: the scheduler thread polls once per        *)
(* instant (run_pending, then time.sleep(1)), and the times of day and the *)
(* intervals of the tasks are whole numbers of instants. A day has DayLen  *)
(* instants; day d covers the instants d * DayLen .. d * DayLen + DayLen-1.*)
(***************************************************************************)
\* Instants per day.
DayLen == 3
\* The longest interval a task is given.
MaxEvery == 2
\* The last instant the clock reaches.
MaxSchedTime == 6
\* Task ids handed out at most (uuid4 prefixes, numbered as they are minted).
MaxTasks == 5
\* create_task, update_task, toggle_task and delete_task calls at most.
MaxOps == 1
\* Days per week: the entries of days_map.
WeekLen == 7

TaskIds == 1..MaxTasks

\* The ids of the tasks loaded from scheduled_tasks.json: a daily task, an
\* interval task, a once task and one more, the preset 'Weekly Cleanup'.
DailyId == 1
IntervalId == 2
OnceId == 3
PresetId == 4

\* A ScheduledTask. schedule_time is a time of day (daily, weekly, once) or
\* the interval; days lists weekdays 0..6; last_run is -1 for "".
ScheduledTask(schedule_type, schedule_time, days, enabled, command, parameters) ==
    [schedule_type |-> schedule_type, schedule_time |-> schedule_time, days |-> days,
     enabled |-> enabled, command |-> command, parameters |-> parameters,
     last_run |-> 0 - 1, run_count |-> 0]

\* What _load_data finds: three enabled tasks a user created earlier, and
\* the preset as create_preset_tasks made it.
LoadedTasks(at, every, once_at) ==
    [id \in {DailyId, IntervalId, OnceId, PresetId} |->
        CASE id = DailyId ->
               ScheduledTask("daily", at, <<>>, TRUE, "show_desktop", {})
          [] id = IntervalId ->
               ScheduledTask("interval", every, <<>>, TRUE, "system_status",
                             {<<"detail", "full">>})
          [] id = OnceId ->
               ScheduledTask("once", once_at, <<>>, TRUE, "take_screenshot", {})
          [] OTHER ->
               ScheduledTask("weekly", 1, <<6>>, FALSE, "cleanup_temp", {})]

\* The tasks create_task is called with: the four kinds, enabled or not
\* (the presets of create_preset_tasks are disabled ones).
NewTasks ==
    { ScheduledTask(type, 1, <<0, 1>>, enabled, "show_desktop", {}) :
        type \in {"daily", "weekly", "interval", "once"}, enabled \in BOOLEAN }

\* The next instant after t that is time of day at (schedule: every().day.at):
\* today if at is still to come, tomorrow if not.
NextDayAt(t, at) ==
    IF at > t % DayLen THEN t - (t % DayLen) + at
    ELSE t - (t % DayLen) + DayLen + at

\* The next instant after t that is time of day at on weekday day
\* (schedule: every().monday.at and the like).
NextWeekdayAt(t, day, at) ==
    CHOOSE u \in (t + 1)..(t + DayLen * WeekLen) :
        /\ u % DayLen = at
        /\ (u \div DayLen) % WeekLen = day
        /\ \A v \in (t + 1)..(u - 1) :
              ~(v % DayLen = at /\ (v \div DayLen) % WeekLen = day)

\* A job of the schedule module: every interval units (at a time of day, on
\* a weekday) do _execute_task(task).
Job(task_id, unit, interval, at, day, next_run) ==
    [task |-> task_id, unit |-> unit, interval |-> interval, at |-> at,
     day |-> day, next_run |-> next_run]

\* When a job is due next, seen from instant t: on registration and after
\* each run.
NextRun(job, t) ==
    CASE job.unit = "minutes" -> t + job.interval
      [] job.unit = "days" -> NextDayAt(t, job.at)
      [] OTHER -> NextWeekdayAt(t, job.day, job.at)

Scheduled(job, t) == [job EXCEPT !.next_run = NextRun(job, t)]

\* _schedule_task(task) at instant t: the jobs it registers. 'once' has no
\* branch: nothing is registered for it.
schedule_task(task, task_id, t) ==
    CASE task.schedule_type = "daily" ->
           << Scheduled(Job(task_id, "days", 1, task.schedule_time, 0, 0), t) >>
      [] task.schedule_type = "weekly" ->
           [k \in 1..Len(task.days) |->
               Scheduled(Job(task_id, "weeks", 1, task.schedule_time, task.days[k], 0), t)]
      [] task.schedule_type = "interval" ->
           << Scheduled(Job(task_id, "minutes", task.schedule_time, 0, 0, 0), t) >>
      [] OTHER -> <<>>

\* The loop of _schedule_all_tasks over the ids from id on, in dict order.
RECURSIVE ScheduleFrom(_, _, _)
ScheduleFrom(ts, id, t) ==
    IF id > MaxTasks THEN <<>>
    ELSE (IF id \in DOMAIN ts /\ ts[id].enabled THEN schedule_task(ts[id], id, t)
          ELSE <<>>)
         \o ScheduleFrom(ts, id + 1, t)

\* _schedule_all_tasks() run in one piece: schedule.clear(), then the loop.
schedule_all_tasks(ts, t) == ScheduleFrom(ts, 1, t)

\* Seeded fault: an exception of the callback leaves _execute_task.
CallbackEscapes(raised) == ~raised

\* "except Exception as e: logger.error(...)": does _execute_task return
\* normally when the callback has raised or not?
CallbackCaught(raised) == TRUE

\* "Update task stats"
UpdateStats(task, t) == [task EXCEPT !.last_run = t, !.run_count = @ + 1]

\* One _execute_task call that got past its guard, as recorded: the run
\* count before it, and the task as it was when the callback was looked up.
Fire(task_id, before, task, called, raised) ==
    [task |-> task_id, before |-> before, run_count |-> task.run_count,
     last_run |-> task.last_run, called |-> called, command |-> task.command,
     parameters |-> task.parameters, raised |-> raised]

\* _execute_task(task_id) at instant t for a task that is there and enabled;
\* st holds the task table, the job list, the record of the calls and
\* whether the thread is still alive.
ExecuteTask(st, task_id, called, raised, t) ==
    [st EXCEPT !.tasks[task_id] = UpdateStats(@, t),
               !.fires = Append(@, Fire(task_id, st.tasks[task_id].run_count,
                                        UpdateStats(st.tasks[task_id], t),
                                        called, raised)),
               !.alive = CallbackCaught(raised)]

\* schedule's Job.run for the job at position idx: the job function, then
\* the next run is set. An exception of the job function ends the thread.
RunJob(st, idx, callbacks, raises, t) ==
    LET task_id == st.jobs[idx].task
        after == IF task_id \in DOMAIN st.tasks /\ st.tasks[task_id].enabled
                 THEN ExecuteTask(st, task_id, task_id \in callbacks,
                                  task_id \in callbacks /\ task_id \in raises, t)
                 ELSE st
    IN  IF after.alive THEN [after EXCEPT !.jobs[idx] = Scheduled(@, t)] ELSE after

\* sorted(runnable_jobs): the positions of the jobs that are due at t, by
\* next_run, and by position among equals.
RECURSIVE DueOrder(_, _, _)
DueOrder(js, left, t) ==
    IF left = {} THEN <<>>
    ELSE LET first == CHOOSE i \in left :
                         \A k \in left :
                            \/ js[i].next_run < js[k].next_run
                            \/ js[i].next_run = js[k].next_run /\ i <= k
         IN  <<first>> \o DueOrder(js, left \ {first}, t)

Due(js, t) == {i \in 1..Len(js) : js[i].next_run <= t}

\* schedule.run_pending(): the due jobs run one after the other.
RECURSIVE RunJobs(_, _, _, _, _, _)
RunJobs(st, order, k, callbacks, raises, t) ==
    IF k > Len(order) \/ ~st.alive THEN st
    ELSE RunJobs(RunJob(st, order[k], callbacks, raises, t), order, k + 1,
                 callbacks, raises, t)

run_pending(ts, js, callbacks, raises, t) ==
    RunJobs([tasks |-> ts, jobs |-> js, fires |-> <<>>, alive |-> TRUE],
            DueOrder(js, Due(js, t), t), 1, callbacks, raises, t)

\* A thread that runs _run_scheduler, followed step by step. pc is where it
\* is: "schedule" before _schedule_all_tasks, "check" at "while
\* self.running", then for each job of its run_pending() call "guard" before
\* the guard of _execute_task, "stats" past it and "callback" past the
\* update of the stats, "sleep" in time.sleep(1), "ended" after the loop.
\* todo is what is left of sorted(runnable_jobs): for each job the task its
\* job function is for and its place in the job list, 0 for a job that
\* schedule.clear() has dropped from the list. held is the task object
\* _execute_task got from self.tasks.
Thread(pc) == [pc |-> pc, todo |-> <<>>, held |-> <<>>]

\* schedule.clear(): the jobs the threads still hold are in no list.
Dropped(ths) ==
    [i \in 1..Len(ths) |->
        [ths[i] EXCEPT !.todo = [k \in 1..Len(ths[i].todo) |->
                                    [task |-> ths[i].todo[k].task, job |-> 0]]]]

\* start_scheduler(): the thread is created and started.
StartScheduler ==
    /\ ~running
    /\ sched_pc = "none"
    /\ running' = TRUE
    /\ sched_pc' = "clear"
    /\ UNCHANGED threads
    /\ UNCHANGED <<now, secVars, cmdVars, direct_authorized, requests, parses, tasks, n_tasks,
                   task_callbacks, jobs, iter_size, polled, fires, n_ops>>

\* The thread in _schedule_all_tasks: schedule.clear(), and the iterator
\* over self.tasks.values() is set up.
SchedClear ==
    /\ sched_pc = "clear"
    /\ jobs' = <<>>
    /\ iter_size' = Cardinality(DOMAIN tasks)
    /\ sched_pc' = "build"
    /\ threads' = Dropped(threads)
    /\ UNCHANGED <<now, secVars, cmdVars, direct_authorized, requests, parses, tasks, n_tasks,
                   task_callbacks, running, polled, fires, n_ops>>

\* The thread in _schedule_all_tasks: the loop over the tasks, then on to
\* the polling loop. The jobs are added to whatever the list holds by now.
SchedBuild ==
    /\ sched_pc = "build"
    /\ jobs' = jobs \o schedule_all_tasks(tasks, now)
    /\ sched_pc' = "loop"
    /\ iter_size' = 0
    /\ UNCHANGED threads
    /\ UNCHANGED <<now, secVars, cmdVars, direct_authorized, requests, parses, tasks, n_tasks,
                   task_callbacks, running, polled, fires, n_ops>>

\* The thread in _schedule_all_tasks: self.tasks has grown or shrunk since
\* the iterator was set up, the loop raises RuntimeError at its first step
\* and the thread ends.
SchedBuildRaises ==
    /\ sched_pc = "build"
    /\ Cardinality(DOMAIN tasks) # iter_size
    /\ sched_pc' = "raised"
    /\ iter_size' = 0
    /\ UNCHANGED threads
    /\ UNCHANGED <<now, secVars, cmdVars, direct_authorized, requests, parses, tasks, n_tasks,
                   task_callbacks, running, jobs, polled, fires, n_ops>>

\* One pass of "while self.running: schedule.run_pending(); time.sleep(1)".
\* Each callback that is called raises or does not.
RunPending ==
    /\ sched_pc = "loop"
    /\ running
    /\ ~polled
    /\ \E raises \in SUBSET task_callbacks :
          /\ tasks' = run_pending(tasks, jobs, task_callbacks, raises, now).tasks
          /\ jobs' = run_pending(tasks, jobs, task_callbacks, raises, now).jobs
          /\ fires' = run_pending(tasks, jobs, task_callbacks, raises, now).fires
          /\ sched_pc' = IF run_pending(tasks, jobs, task_callbacks, raises, now).alive
                         THEN "loop" ELSE "crashed"
    /\ polled' = TRUE
    /\ UNCHANGED threads
    /\ UNCHANGED <<now, secVars, cmdVars, direct_authorized, requests, parses, n_tasks, task_callbacks,
                   running, iter_size, n_ops>>

\* stop_scheduler(): the loop sees running False and the thread ends.
StopScheduler ==
    /\ running
    /\ sched_pc = "loop"
    /\ running' = FALSE
    /\ sched_pc' = "stopped"
    /\ UNCHANGED threads
    /\ UNCHANGED <<now, secVars, cmdVars, direct_authorized, requests, parses, tasks, n_tasks,
                   task_callbacks, jobs, iter_size, polled, fires, n_ops>>

\* An instant passes: time.sleep(1) is over. A thread that polls has polled.
SchedTick ==
    /\ now < MaxSchedTime
    /\ sched_pc \in {"loop", "raised", "crashed", "stopped"}
    /\ sched_pc = "loop" => polled
    /\ now' = now + 1
    /\ polled' = FALSE
    /\ fires' = <<>>
    /\ UNCHANGED threads
    /\ UNCHANGED <<secVars, cmdVars, direct_authorized, requests, parses, tasks, n_tasks, task_callbacks,
                   running, jobs, sched_pc, iter_size, n_ops>>

\* register_task_callback(task_id, callback)
RegisterTaskCallback(task_id) ==
    /\ task_id \notin task_callbacks
    /\ task_callbacks' = task_callbacks \cup {task_id}
    /\ UNCHANGED threads
    /\ UNCHANGED <<now, secVars, cmdVars, direct_authorized, requests, parses, tasks, n_tasks, running,
                   jobs, sched_pc, iter_size, polled, fires, n_ops>>

\* create_task(...): the task gets a fresh id and, if enabled, its jobs are
\* added to the list.
CreateTask(task) ==
    /\ n_ops < MaxOps
    /\ n_tasks < MaxTasks
    /\ n_ops' = n_ops + 1
    /\ n_tasks' = n_tasks + 1
    /\ tasks' = Put(tasks, n_tasks + 1, task)
    /\ jobs' = IF task.enabled THEN jobs \o schedule_task(task, n_tasks + 1, now)
               ELSE jobs
    /\ UNCHANGED threads
    /\ UNCHANGED <<now, secVars, cmdVars, direct_authorized, requests, parses, task_callbacks, running,
                   sched_pc, iter_size, polled, fires>>

\* What update_task, delete_task and toggle_task end with: schedule.clear()
\* and _schedule_all_tasks() over the table as it is now.
Reschedule(ts) ==
    /\ tasks' = ts
    /\ jobs' = schedule_all_tasks(ts, now)
    /\ n_ops' = n_ops + 1
    /\ threads' = Dropped(threads)
    /\ UNCHANGED <<now, secVars, cmdVars, direct_authorized, requests, parses, n_tasks, task_callbacks,
                   running, sched_pc, iter_size, polled, fires>>

\* update_task(task_id, schedule_time=...)
UpdateTask(task_id, schedule_time) ==
    /\ n_ops < MaxOps
    /\ task_id \in DOMAIN tasks
    /\ Reschedule([tasks EXCEPT ![task_id].schedule_time = schedule_time])

\* delete_task(task_id)
DeleteTask(task_id) ==
    /\ n_ops < MaxOps
    /\ task_id \in DOMAIN tasks
    /\ Reschedule(Restrict(tasks, DOMAIN tasks \ {task_id}))

\* toggle_task(task_id)
ToggleTask(task_id) ==
    /\ n_ops < MaxOps
    /\ task_id \in DOMAIN tasks
    /\ Reschedule([tasks EXCEPT ![task_id].enabled = ~@])

\* The scheduler before start_scheduler(), with ts loaded from the file.
SchedulerInit(ts) ==
    /\ tasks = ts
    /\ n_tasks = Cardinality(DOMAIN ts)
    /\ task_callbacks = {}
    /\ running = FALSE
    /\ jobs = <<>>
    /\ sched_pc = "none"
    /\ iter_size = 0
    /\ polled = FALSE
    /\ threads = <<>>
    /\ fires = <<>>
    /\ n_ops = 0

(***************************************************************************)
(* The scheduler thread step by step, next to the calls of other threads   *)
(***************************************************************************)
\* The threads that have not left _run_scheduler.
Alive(ths) == { i \in 1..Len(ths) : ths[i].pc \notin {"ended", "crashed"} }

\* Is the thread in a task's callback, or about to call it? The callback
\* takes as long as it takes.
InCallback(thread) ==
    /\ thread.pc = "callback"
    /\ Head(thread.todo).task \in task_callbacks

\* start_scheduler(): nothing if self.running, else the flag is set and a
\* new thread is created and started; self.scheduler_thread is the latest.
start_scheduler ==
    /\ Len(threads) < MaxThreads
    /\ sched_pc = "none"
    /\ IF running THEN UNCHANGED <<running, threads>>
       ELSE /\ running' = TRUE
            /\ threads' = Append(threads, Thread("schedule"))
    /\ UNCHANGED <<now, secVars, cmdVars, direct_authorized, requests, parses, tasks,
                   n_tasks, task_callbacks, jobs, sched_pc, iter_size, polled, fires,
                   n_ops>>

\* stop_scheduler(): the flag is cleared, then self.scheduler_thread.join(
\* timeout=2). The call is followed where the thread is in time.sleep(1):
\* it wakes, finds the flag cleared and returns, the join succeeds; and
\* where it is in a task's callback: the callback may outlast the two
\* seconds, and the join returns with the thread still running.
stop_scheduler ==
    /\ running
    /\ threads # <<>>
    /\ running' = FALSE
    /\ \/ /\ threads[Len(threads)].pc \in {"sleep", "ended", "crashed"}
          /\ threads' = [threads EXCEPT ![Len(threads)].pc =
                            IF @ = "sleep" THEN "ended" ELSE @]
       \/ /\ InCallback(threads[Len(threads)])
          /\ UNCHANGED threads
    /\ UNCHANGED <<now, secVars, cmdVars, direct_authorized, requests, parses, tasks,
                   n_tasks, task_callbacks, jobs, sched_pc, iter_size, polled, fires,
                   n_ops>>

\* Thread i in _run_scheduler: _schedule_all_tasks(), in one piece.
ThreadSchedule(i) ==
    /\ i \in 1..Len(threads)
    /\ threads[i].pc = "schedule"
    /\ jobs' = schedule_all_tasks(tasks, now)
    /\ threads' = [Dropped(threads) EXCEPT ![i].pc = "check"]
    /\ UNCHANGED <<now, secVars, cmdVars, direct_authorized, requests, parses, tasks,
                   n_tasks, task_callbacks, running, sched_pc, iter_size, polled,
                   fires, n_ops>>

\* sorted(runnable_jobs) of run_pending() at instant t, as a thread holds it.
Runnable(js, t) ==
    [k \in 1..Cardinality(Due(js, t)) |->
        [task |-> js[DueOrder(js, Due(js, t), t)[k]].task,
         job |-> DueOrder(js, Due(js, t), t)[k]]]

\* Where a thread goes on with what is left of its jobs.
NextPc(todo) == IF todo = <<>> THEN "sleep" ELSE "guard"

\* Thread i at "while self.running": the loop is left, or run_pending()
\* collects the jobs that are due.
ThreadCheck(i) ==
    /\ i \in 1..Len(threads)
    /\ threads[i].pc = "check"
    /\ threads' =
          IF running
          THEN [threads EXCEPT ![i].todo = Runnable(jobs, now),
                               ![i].pc = NextPc(Runnable(jobs, now))]
          ELSE [threads EXCEPT ![i].pc = "ended"]
    /\ UNCHANGED <<now, secVars, cmdVars, direct_authorized, requests, parses, tasks,
                   n_tasks, task_callbacks, running, jobs, sched_pc, iter_size, polled,
                   fires, n_ops>>

\* schedule's Job.run after the job function: the next run of the job is
\* set, in the list if the job is still there.
JobDone(js, job, t) ==
    IF job = 0 THEN js ELSE [js EXCEPT ![job] = Scheduled(@, t)]

\* Thread i enters _execute_task(task_id) for its next job: "if not task or
\* not task.enabled: return".
ThreadGuard(i) ==
    /\ i \in 1..Len(threads)
    /\ threads[i].pc = "guard"
    /\ LET task_id == Head(threads[i].todo).task
       IN  IF task_id \in DOMAIN tasks /\ tasks[task_id].enabled
           THEN /\ threads' = [threads EXCEPT ![i].pc = "stats",
                                              ![i].held = <<tasks[task_id]>>]
                /\ UNCHANGED jobs
           ELSE /\ threads' = [threads EXCEPT ![i].todo = Tail(@),
                                              ![i].pc = NextPc(Tail(threads[i].todo))]
                /\ jobs' = JobDone(jobs, Head(threads[i].todo).job, now)
    /\ UNCHANGED <<now, secVars, cmdVars, direct_authorized, requests, parses, tasks,
                   n_tasks, task_callbacks, running, sched_pc, iter_size, polled,
                   fires, n_ops>>

\* The task object a thread holds: the one in the table while the task is
\* there, the object as it was left once the task is deleted.
HeldTask(ts, thread) ==
    IF Head(thread.todo).task \in DOMAIN ts THEN ts[Head(thread.todo).task]
    ELSE thread.held[1]

\* Thread i in _execute_task past the guard: "Update task stats" and
\* _save_data(), on the object it got before the guard.
ThreadStats(i) ==
    /\ i \in 1..Len(threads)
    /\ threads[i].pc = "stats"
    /\ LET task_id == Head(threads[i].todo).task
           after == UpdateStats(HeldTask(tasks, threads[i]), now)
       IN  /\ tasks' = IF task_id \in DOMAIN tasks
                       THEN [tasks EXCEPT ![task_id] = after] ELSE tasks
           /\ threads' = [threads EXCEPT ![i].pc = "callback", ![i].held = <<after>>]
    /\ UNCHANGED <<now, secVars, cmdVars, direct_authorized, requests, parses, n_tasks,
                   task_callbacks, running, jobs, sched_pc, iter_size, polled, fires,
                   n_ops>>

\* Thread i in _execute_task: "Call the callback if registered", which
\* raises or does not; then the job's next run is set.
ThreadCallback(i) ==
    /\ i \in 1..Len(threads)
    /\ threads[i].pc = "callback"
    /\ LET task_id == Head(threads[i].todo).task
           task == HeldTask(tasks, threads[i])
           called == task_id \in task_callbacks
       IN  \E raised \in {FALSE, called} :
              /\ fires' = Append(fires, Fire(task_id, task.run_count - 1, task,
                                             called, raised))
              /\ threads' =
                    IF CallbackCaught(raised)
                    THEN [threads EXCEPT ![i].todo = Tail(@), ![i].held = <<>>,
                                         ![i].pc = NextPc(Tail(threads[i].todo))]
                    ELSE [threads EXCEPT ![i].pc = "crashed"]
              /\ jobs' = IF CallbackCaught(raised)
                         THEN JobDone(jobs, Head(threads[i].todo).job, now)
                         ELSE jobs
    /\ UNCHANGED <<now, secVars, cmdVars, direct_authorized, requests, parses, tasks,
                   n_tasks, task_callbacks, running, sched_pc, iter_size, polled,
                   n_ops>>

\* An instant passes while every thread is in time.sleep(1) or in a
\* callback: the sleepers wake.
ThreadTick ==
    /\ now < MaxThreadTime
    /\ Alive(threads) # {}
    /\ \A i \in Alive(threads) : threads[i].pc = "sleep" \/ InCallback(threads[i])
    /\ now' = now + 1
    /\ threads' = [i \in 1..Len(threads) |->
                      IF threads[i].pc = "sleep"
                      THEN [threads[i] EXCEPT !.pc = "check"] ELSE threads[i]]
    /\ fires' = <<>>
    /\ UNCHANGED <<secVars, cmdVars, direct_authorized, requests, parses, tasks, n_tasks,
                   task_callbacks, running, jobs, sched_pc, iter_size, polled, n_ops>>

(***************************************************************************)
(* AutomationManager.run_macro with main.py's macro_cmd_callback           *)
(***************************************************************************)
Commands_of(macro_id) == macros[MacroIndex(macros, macro_id)].commands

SetRun(r, run) == [runs EXCEPT ![r] = run]

\* run_macro returns ok. invoked_at, the time of the latest invocation of
\* the callback, is of no use once the run is over.
Finish(run, ok) ==
    [run EXCEPT !.phase = "done", !.ret = IF ok THEN "true" ELSE "false",
                !.call = <<>>, !.invoked_at = 0]

\* "Update stats": macro.run_count += 1 for a run that returned True.
CountRun(ms, run) ==
    IF run.phase = "done" /\ run.ret = "true"
    THEN [ms EXCEPT ![MacroIndex(ms, run.macro)].run_count = @ + 1]
    ELSE ms

\* The loop goes on after step run.idx: the next step is up, or the run ends.
Proceed(run) ==
    IF run.idx < Len(Commands_of(run.macro))
    THEN [run EXCEPT !.idx = @ + 1, !.phase = "ready"]
    ELSE Finish(run, TRUE)

\* Does the callback's outcome end the run? Only an exception does (the
\* except clause); what the callback returns is not looked at.
AbortsRun(step_result) == step_result = "raised"

\* Seeded fault: the delay is never waited for.
SleepsNever(delay) == FALSE

\* "Wait for specified delay": is asyncio.sleep(delay) awaited?
Sleeps(delay) == delay > 0

\* Seeded fault: the sleep is over at once.
WakeTimeAtOnce(t, delay) == t

\* The time asyncio.sleep(delay) called at t is over.
WakeTime(t, delay) == t + delay

\* The callback of step run.idx came back with step_result at time t.
AfterCallback(run, step_result, t) ==
    LET done == [run EXCEPT !.results = Append(@, step_result),
                            !.done_at = t, !.call = <<>>]
        delay == Commands_of(run.macro)[run.idx].delay
    IN  IF AbortsRun(step_result) THEN Finish(done, FALSE)
        ELSE IF Sleeps(delay)
             THEN [done EXCEPT !.phase = "sleep", !.wake = WakeTime(t, delay)]
        ELSE Proceed(done)

\* What the handle_command call of a step came to: result['success'].
StepResult(res) == IF res.success THEN "ok" ELSE "fail"

\* run_macro(macro_id, callback) starts running: the checks before the loop.
RunMacroBegin(r) ==
    /\ r \in 1..Len(runs)
    /\ runs[r].phase = "created"
    /\ LET i == MacroIndex(macros, runs[r].macro)
           after == IF i = 0 \/ ~macros[i].enabled
                    THEN Finish(runs[r], FALSE)
                    ELSE Proceed(runs[r])
       IN  /\ runs' = SetRun(r, after)
           /\ macros' = CountRun(macros, after)
    /\ UNCHANGED <<now, secVars, calls, n_calls, n_toggles, direct_authorized, requests, parses, schedVars>>

\* The callback of step run.idx came back with step_result: run_macro goes
\* on to the delay.
ReturnStep(r, run, step_result) ==
    /\ runs' = SetRun(r, AfterCallback(run, step_result, now))
    /\ macros' = CountRun(macros, AfterCallback(run, step_result, now))

\* The number of runs that steps of runs created.
Nested(rs) == Cardinality({ q \in 1..Len(rs) : rs[q].parent # 0 })

\* The callback of a step of run, with call as its handle_command call: the
\* call raises, starts a macro and returns, awaits its branch, or runs
\* through to its return.
EnterStep(r, run, call) ==
    CASE call.kind = "raise" ->
           /\ ReturnStep(r, run, "raised")
           /\ UNCHANGED secVars
      [] call.kind = "macro" ->
           /\ Nested(runs) < MaxNested
           /\ runs' = Append(SetRun(r, AfterCallback(run, "ok", now)),
                             NewRun(call.macro, run.language, r))
           /\ macros' = CountRun(macros, AfterCallback(run, "ok", now))
           /\ UNCHANGED secVars
      [] call.kind = "dispatch" /\ Suspends(Branch(call.command_key, call.params)) ->
           /\ runs' = SetRun(r, [run EXCEPT !.phase = "await", !.call = call])
           /\ UNCHANGED <<macros, secVars>>
      [] OTHER ->
           /\ PostProcess(call, Immediate(call))
           /\ ReturnStep(r, run, StepResult(FinalResult(call, Immediate(call))))

\* The step run r is at.
StepOf(run) == Commands_of(run.macro)[run.idx]

\* One pass of the loop up to the callback's first await that yields:
\* callback(command, parameters) -> handle_command(websocket, cmd, language, p).
RunMacroStep(r) ==
    /\ r \in 1..Len(runs)
    /\ runs[r].phase = "ready"
    /\ EnterStep(r, [runs[r] EXCEPT !.invoked = Append(@, runs[r].idx),
                                    !.invoked_at = now],
                 Call(StepOf(runs[r]).command,
                      Entry(StepOf(runs[r]).command, runs[r].language,
                            StepOf(runs[r]).parameters),
                      StepCall(r, runs[r].idx)))
    /\ UNCHANGED <<now, calls, n_calls, n_toggles, direct_authorized, requests, parses, schedVars>>

\* The awaited branch of a step's handle_command call comes back with res:
\* post-processing, the callback returns.
StepReturns(r) ==
    /\ r \in 1..Len(runs)
    /\ runs[r].phase = "await"
    /\ \E outcome \in Outcomes(Branch(runs[r].call.command_key, runs[r].call.params)) :
          /\ PostProcess(runs[r].call,
                         BranchResult(Branch(runs[r].call.command_key,
                                             runs[r].call.params), outcome))
          /\ ReturnStep(r, runs[r],
                        StepResult(FinalResult(runs[r].call,
                           BranchResult(Branch(runs[r].call.command_key,
                                               runs[r].call.params), outcome))))
    /\ UNCHANGED <<now, calls, n_calls, n_toggles, direct_authorized, requests, parses, schedVars>>

\* asyncio.sleep(delay) is over.
RunMacroWake(r) ==
    /\ r \in 1..Len(runs)
    /\ runs[r].phase = "sleep"
    /\ now >= runs[r].wake
    /\ LET after == Proceed(runs[r])
       IN  /\ runs' = SetRun(r, after)
           /\ macros' = CountRun(macros, after)
    /\ UNCHANGED <<now, secVars, calls, n_calls, n_toggles, direct_authorized, requests, parses, schedVars>>

(***************************************************************************)
(* Time                                                                    *)
(***************************************************************************)
\* The times at which a sleeping task is due.
Deadlines ==
    {timers[i] : i \in DOMAIN timers}
        \cup {runs[r].wake : r \in {q \in 1..Len(runs) : runs[q].phase = "sleep"}}

\* The clock moves to the next time something can happen: a deadline, up to
\* MaxLate after it, or the time a record becomes old enough for the cleanup.
Instants ==
    {d + k : d \in Deadlines, k \in 0..MaxLate}
        \cup {pending_confirmations[i].expires_at + CLEANUP_GRACE + 1 :
                i \in DOMAIN pending_confirmations}

\* Time passes. It does not pass a deadline by more than MaxLate while the
\* task sleeps on.
Tick ==
    /\ \E t \in Instants :
          /\ t > now
          /\ t <= MaxTime
          /\ \A d \in Deadlines : t <= d + MaxLate
          /\ now' = t
    /\ UNCHANGED <<secVars, cmdVars, direct_authorized, requests, parses, schedVars>>

(***************************************************************************)
(* Specification                                                           *)
(***************************************************************************)
Init ==
    /\ now = 0
    /\ pending_confirmations = EmptyMap
    /\ confirmation_callbacks = {}
    /\ timers = EmptyMap
    /\ calls = EmptyMap
    /\ n_calls = 0
    /\ macros = InitialMacros
    /\ n_toggles = 0
    /\ runs = <<>>
    /\ true_returns = [id \in PresentedIds |-> 0]
    /\ callback_calls = EmptyMap
    /\ authorized = EmptyMap
    /\ reexecuted = EmptyMap
    /\ direct_authorized = FALSE
    /\ requests = EmptyMap
    /\ parses = <<>>
    /\ SchedulerInit(EmptyMap)

\* The confirmation flow: sensitive commands, the confirm endpoint, the timer.
ConfirmNext ==
    \/ \E text \in SensitiveCommands, language \in Languages : HandleCommand(text, language)
    \/ \E id \in PresentedIds, approved \in BOOLEAN : ConfirmEndpoint(id, approved)
    \/ \E id \in MintedIds : HandleTimeout(id)
    \/ \E id \in ConfIds : RegisterCallback(id)
    \/ CleanupOldConfirmations
    \/ \E key \in DirectKeys, confirmed \in BOOLEAN : DirectEndpoint(key, confirmed)
    \/ Tick

ConfirmSpec == Init /\ [][ConfirmNext]_vars

\* The confirmation flow of a server that keeps running: time passes and a
\* timeout task that is due runs. Nothing in the repository calls
\* cleanup_old_confirmations (lifespan starts the status broadcast and the
\* scheduler only), so no fairness is assumed of it.
SweepSpec ==
    /\ Init
    /\ [][ConfirmNext]_vars
    /\ WF_vars(Tick)
    /\ \A id \in ConfIds : WF_vars(HandleTimeout(id))

\* Commands about a target, their confirmations approved or rejected.
TargetNext ==
    \/ \E text \in TargetCommands, language \in Languages : HandleCommand(text, language)
    \/ \E id \in ConfIds, approved \in BOOLEAN : ConfirmEndpoint(id, approved)
    \/ \E id \in ConfIds : HandleTimeout(id)
    \/ Tick

TargetSpec == Init /\ [][TargetNext]_vars

\* The macro flow: trigger phrases, toggling, the runs and their steps.
MacroNext ==
    \/ \E text \in TriggerCommands : HandleCommand(text, "en")
    \/ \E c \in 1..MaxCalls : HandlerReturns(c)
    \/ \E id \in MintedIds : HandleTimeout(id)
    \/ \E m \in MacroIds : ToggleMacro(m)
    \/ \E r \in 1..MaxRuns : RunMacroBegin(r)
    \/ \E r \in 1..MaxRuns : RunMacroStep(r)
    \/ \E r \in 1..MaxRuns : StepReturns(r)
    \/ \E r \in 1..MaxRuns : RunMacroWake(r)
    \/ Tick

MacroSpec == Init /\ [][MacroNext]_vars

\* The run of the macro with delays 0, 2, 0: the table holds it as well.
ClockInit ==
    /\ now = 0
    /\ pending_confirmations = EmptyMap
    /\ confirmation_callbacks = {}
    /\ timers = EmptyMap
    /\ calls = EmptyMap
    /\ n_calls = 0
    /\ macros = Append(InitialMacros, ClockMacro)
    /\ n_toggles = 0
    /\ runs = <<>>
    /\ true_returns = [id \in PresentedIds |-> 0]
    /\ callback_calls = EmptyMap
    /\ authorized = EmptyMap
    /\ reexecuted = EmptyMap
    /\ direct_authorized = FALSE
    /\ requests = EmptyMap
    /\ parses = <<>>
    /\ SchedulerInit(EmptyMap)

ClockNext ==
    \/ \E text \in ClockCommands : HandleCommand(text, "en")
    \/ ToggleMacro(ClockMacro.id)
    \/ \E r \in 1..MaxRuns : RunMacroBegin(r)
    \/ \E r \in 1..MaxRuns : RunMacroStep(r)
    \/ \E r \in 1..MaxRuns : StepReturns(r)
    \/ \E r \in 1..MaxRuns : RunMacroWake(r)
    \/ Tick

ClockSpec == ClockInit /\ [][ClockNext]_vars

\* Texts against any table of macros: find_macro_by_trigger as
\* handle_command calls it.
TriggerInit ==
    /\ now = 0
    /\ pending_confirmations = EmptyMap
    /\ confirmation_callbacks = {}
    /\ timers = EmptyMap
    /\ calls = EmptyMap
    /\ n_calls = 0
    /\ macros \in MacroTables
    /\ n_toggles = 0
    /\ runs = <<>>
    /\ true_returns = [id \in PresentedIds |-> 0]
    /\ callback_calls = EmptyMap
    /\ authorized = EmptyMap
    /\ reexecuted = EmptyMap
    /\ direct_authorized = FALSE
    /\ requests = EmptyMap
    /\ parses = <<>>
    /\ SchedulerInit(EmptyMap)

TriggerNext == \E text \in MatchTexts : HandleCommand(text, "en")

TriggerSpec == TriggerInit /\ [][TriggerNext]_vars

\* The chains of runs: texts against the table LoopMacros, the runs they
\* start and the runs the steps of those start.
LoopInit ==
    /\ now = 0
    /\ pending_confirmations = EmptyMap
    /\ confirmation_callbacks = {}
    /\ timers = EmptyMap
    /\ calls = EmptyMap
    /\ n_calls = 0
    /\ macros = LoopMacros
    /\ n_toggles = 0
    /\ runs = <<>>
    /\ true_returns = [id \in PresentedIds |-> 0]
    /\ callback_calls = EmptyMap
    /\ authorized = EmptyMap
    /\ reexecuted = EmptyMap
    /\ direct_authorized = FALSE
    /\ requests = EmptyMap
    /\ parses = <<>>
    /\ SchedulerInit(EmptyMap)

LoopNext ==
    \/ \E text \in LoopCommands, language \in Languages : HandleCommand(text, language)
    \/ \E r \in 1..(MaxRuns + MaxNested) : RunMacroBegin(r)
    \/ \E r \in 1..(MaxRuns + MaxNested) : RunMacroStep(r)
    \/ \E r \in 1..(MaxRuns + MaxNested) : RunMacroWake(r)
    \/ Tick

LoopSpec == LoopInit /\ [][LoopNext]_vars

\* The parser on its own.
ParseNext == \E text \in ParseTexts : ParseCommand(text)

ParseSpec == Init /\ [][ParseNext]_vars

\* The dispatcher behind /api/command: one text for each way handle_command
\* returns, in either language, and the run of the macro a text starts.
DispatchNext ==
    \/ \E command \in DispatchCommands, language \in Languages :
          ExecuteCommand(command, language)
    \/ \E c \in 1..MaxCalls : HandlerReturns(c)
    \/ \E r \in 1..MaxRuns : RunMacroBegin(r)
    \/ \E r \in 1..MaxRuns : RunMacroStep(r)

DispatchSpec == Init /\ [][DispatchNext]_vars

\* The scheduler: the thread, the clock, and calls that create, update,
\* toggle and delete tasks other than the three loaded ones.
SchedInit ==
    /\ now = 0
    /\ pending_confirmations = EmptyMap
    /\ confirmation_callbacks = {}
    /\ timers = EmptyMap
    /\ calls = EmptyMap
    /\ n_calls = 0
    /\ macros = InitialMacros
    /\ n_toggles = 0
    /\ runs = <<>>
    /\ true_returns = [id \in PresentedIds |-> 0]
    /\ callback_calls = EmptyMap
    /\ authorized = EmptyMap
    /\ reexecuted = EmptyMap
    /\ direct_authorized = FALSE
    /\ requests = EmptyMap
    /\ parses = <<>>
    /\ \E at \in 0..(DayLen - 1), every \in 1..MaxEvery :
          SchedulerInit(LoadedTasks(at, every, at))

\* The scheduler threads step by step, with calls that start and stop the
\* scheduler and that toggle and delete the tasks the threads fire.
ThreadNext ==
    \/ start_scheduler
    \/ stop_scheduler
    \/ \E i \in 1..MaxThreads : ThreadSchedule(i)
    \/ \E i \in 1..MaxThreads : ThreadCheck(i)
    \/ \E i \in 1..MaxThreads : ThreadGuard(i)
    \/ \E i \in 1..MaxThreads : ThreadStats(i)
    \/ \E i \in 1..MaxThreads : ThreadCallback(i)
    \/ ThreadTick
    \/ \E id \in {DailyId, IntervalId} : RegisterTaskCallback(id)
    \/ \E id \in {DailyId, IntervalId} : ToggleTask(id)
    \/ \E id \in {DailyId, IntervalId} : DeleteTask(id)

\* The tasks loaded: the daily task is due at instant 1, the interval task
\* at every instant.
ThreadInit ==
    /\ now = 0
    /\ pending_confirmations = EmptyMap
    /\ confirmation_callbacks = {}
    /\ timers = EmptyMap
    /\ calls = EmptyMap
    /\ n_calls = 0
    /\ macros = InitialMacros
    /\ n_toggles = 0
    /\ runs = <<>>
    /\ true_returns = [id \in PresentedIds |-> 0]
    /\ callback_calls = EmptyMap
    /\ authorized = EmptyMap
    /\ reexecuted = EmptyMap
    /\ direct_authorized = FALSE
    /\ requests = EmptyMap
    /\ parses = <<>>
    /\ SchedulerInit(LoadedTasks(1, 1, 1))

ThreadSpec == ThreadInit /\ [][ThreadNext]_vars

\* The tasks the calls are about: not the daily, the interval and the once
\* task.
OtherIds == TaskIds \ {DailyId, IntervalId, OnceId}

SchedNext ==
    \/ StartScheduler
    \/ SchedClear
    \/ SchedBuild
    \/ SchedBuildRaises
    \/ RunPending
    \/ StopScheduler
    \/ SchedTick
    \/ \E id \in {DailyId, IntervalId} : RegisterTaskCallback(id)
    \/ \E task \in NewTasks : CreateTask(task)
    \/ \E id \in OtherIds : UpdateTask(id, 0)
    \/ \E id \in OtherIds : DeleteTask(id)
    \/ \E id \in OtherIds : ToggleTask(id)

SchedSpec == SchedInit /\ [][SchedNext]_vars

\* The schedule table: the thread's start and calls about any task, all
\* within one instant.
TableNext ==
    \/ StartScheduler
    \/ SchedClear
    \/ SchedBuild
    \/ SchedBuildRaises
    \/ \E task \in NewTasks : CreateTask(task)
    \/ \E id \in TaskIds, at \in 0..(DayLen - 1) : UpdateTask(id, at)
    \/ \E id \in TaskIds : DeleteTask(id)
    \/ \E id \in TaskIds : ToggleTask(id)

TableSpec == SchedInit /\ [][TableNext]_vars
(***************************************************************************)
(* Properties of the confirmation manager                                  *)
(***************************************************************************)
\* C1: confirm_command returns True only for a record that exists and is
\* still undecided, at most once per id, and never for an unknown id.
C1_ConfirmReturnsTrueOnce ==
    [][\A id \in PresentedIds :
          true_returns'[id] # true_returns[id] =>
             /\ id \in DOMAIN pending_confirmations
             /\ pending_confirmations[id].confirmed = "None"
             /\ true_returns[id] = 0
             /\ true_returns'[id] = 1]_vars

\* A record was approved: one call returned True.
C1_Witness ==
    \E id \in ConfIds :
        /\ id \in DOMAIN pending_confirmations
        /\ pending_confirmations[id].confirmed = "True"
        /\ true_returns[id] = 1

\* C2: a record whose decision state is terminal keeps that state under
\* every operation, for as long as it is in the table.
C2_TerminalStateIsFinal ==
    [][\A id \in DOMAIN pending_confirmations :
          (/\ pending_confirmations[id].confirmed # "None"
           /\ id \in DOMAIN pending_confirmations') =>
             pending_confirmations'[id].confirmed
                = pending_confirmations[id].confirmed]_vars

\* An approved record whose timer has fired since.
C2_Witness ==
    \E id \in DOMAIN pending_confirmations :
        /\ pending_confirmations[id].confirmed = "True"
        /\ id \notin DOMAIN timers

\* C3: decision and expiry exclude each other. After a decision that
\* succeeded the timer changes no record and awaits no callback; once the
\* timer has fired or the expiry time has passed, confirm_command does not
\* return True and the record does not become approved.
C3_DecisionAndExpiryExclusive ==
    [][/\ \A id \in DOMAIN timers :
             (id \notin DOMAIN timers' /\ true_returns[id] = 1) =>
                /\ pending_confirmations' = pending_confirmations
                /\ callback_calls' = callback_calls
       /\ \A id \in DOMAIN pending_confirmations :
             (/\ true_returns[id] = 0
              /\ \/ id \notin DOMAIN timers
                 \/ now > pending_confirmations[id].expires_at) =>
                /\ true_returns'[id] = 0
                /\ id \in DOMAIN pending_confirmations' =>
                      pending_confirmations'[id].confirmed # "True"]_vars

\* Both orders happened: one record was decided before its timer fired with
\* a callback registered, another was presented for a decision after its
\* expiry time and before its timer fired.
C3_Witness ==
    \E id \in DOMAIN pending_confirmations, late \in DOMAIN pending_confirmations :
        /\ true_returns[id] = 1
        /\ id \notin DOMAIN timers
        /\ id \in confirmation_callbacks
        /\ callback_calls[id] = 0
        /\ true_returns[late] = 0
        /\ pending_confirmations[late].confirmed = "False"
        /\ late \in DOMAIN timers

\* C4: when the timer of a record ends and no decision succeeded on the
\* record, the record is timed out and the callback registered for it is
\* awaited exactly once.
C4_TimeoutNotifiesOnce ==
    [][\A id \in DOMAIN timers :
          (/\ id \notin DOMAIN timers'
           /\ true_returns[id] = 0
           /\ id \in confirmation_callbacks) =>
             /\ pending_confirmations'[id].confirmed = "False"
             /\ callback_calls'[id] = 1]_vars

(***************************************************************************)
(* Properties of the dispatcher                                            *)
(***************************************************************************)
\* The calls that returned a request for confirmation.
ConfirmationCalls ==
    { c \in DOMAIN calls : calls[c].returned /\ calls[c].result.requires_confirmation }

\* C5: a handle_command call whose handler asks for a confirmation creates
\* exactly one pending record of its own, made of the action key, the text
\* and the language, and returns its id; "shutdown" returns success False
\* with such an id.
C5_ConfirmationMintedPerCall ==
    [][/\ \A c \in DOMAIN calls' \ ConfirmationCalls :
             calls'[c].returned /\ calls'[c].result.requires_confirmation =>
                LET id == calls'[c].result.confirmation_id
                IN  /\ id # 0
                    /\ ~calls'[c].result.success
                    /\ id \notin DOMAIN pending_confirmations
                    /\ DOMAIN pending_confirmations'
                          = DOMAIN pending_confirmations \cup {id}
                    /\ pending_confirmations'[id].confirmed = "None"
                    /\ pending_confirmations'[id].command_key = calls'[c].command_key
                    /\ pending_confirmations'[id].command_text = calls'[c].text
                    /\ pending_confirmations'[id].language = calls'[c].current_lang
       /\ \A c \in DOMAIN calls' :
             calls'[c].returned /\ calls'[c].kind = "dispatch" =>
                /\ calls'[c].text = "shutdown" =>
                      calls'[c].result.requires_confirmation
                /\ calls'[c].result.requires_confirmation =>
                      \A d \in DOMAIN calls' \ {c} :
                         calls'[d].result.confirmation_id
                            # calls'[c].result.confirmation_id]_vars

\* "shutdown" came back with the id of a record that is pending.
C5_Witness ==
    \E c \in DOMAIN calls :
        /\ calls[c].text = "shutdown"
        /\ calls[c].returned
        /\ ~calls[c].result.success
        /\ calls[c].result.confirmation_id \in DOMAIN pending_confirmations
        /\ pending_confirmations[calls[c].result.confirmation_id].confirmed = "None"

\* C6: a handler is called with confirmed=True only after an approval that
\* succeeded on a confirmation minted for its action key, at most once per
\* confirmation, and never after a rejection, a failed decision or a timeout.
C6_AuthorizedOnlyByApproval ==
    /\ ~direct_authorized
    /\ \A id \in DOMAIN authorized :
          /\ authorized[id] <= true_returns[id]
          /\ authorized[id] <= 1
          /\ (authorized[id] = 1 /\ id \in DOMAIN pending_confirmations) =>
                pending_confirmations[id].confirmed = "True"

\* Does an enabled voice macro have its trigger phrase in the text?
HasTrigger(ms, text) ==
    \E i \in 1..Len(ms) :
        /\ ms[i].enabled
        /\ ms[i].trigger = "voice"
        /\ Contains(Lower(text), Lower(ms[i].trigger_phrase))

\* C7: a handle_command call whose text has a macro trigger in it starts one
\* run of a macro and returns "macro started": no branch of the parsed key
\* runs and no confirmation is minted. A call with no trigger in its text
\* starts no run. A call that started a macro stays as it returned.
C7_MacroOrDirectAction ==
    [][/\ \A c \in DOMAIN calls' \ DOMAIN calls :
             IF HasTrigger(macros, calls'[c].text)
             THEN /\ calls'[c].kind = "macro"
                  /\ calls'[c].returned
                  /\ calls'[c].result.action_type = "MACRO_STARTED"
                  /\ calls'[c].result.confirmation_id = 0
                  /\ Len(runs') = Len(runs) + 1
                  /\ runs'[Len(runs')].macro = calls'[c].macro
                  /\ pending_confirmations' = pending_confirmations
                  /\ timers' = timers
             ELSE /\ calls'[c].kind = "dispatch"
                  /\ calls'[c].macro = 0
                  /\ runs' = runs
       /\ \A c \in DOMAIN calls :
             calls[c].kind = "macro" => calls'[c] = calls[c]
       /\ \A c \in DOMAIN calls :
             Len(runs') > Len(runs) => calls'[c] = calls[c]]_vars

\* One text started a macro in one call and, with the macro disabled, went to
\* the branch of its parsed key in another, where it asked for confirmation.
C7_Witness ==
    \E c \in DOMAIN calls, d \in DOMAIN calls :
        /\ calls[c].text = calls[d].text
        /\ calls[c].kind = "macro"
        /\ calls[c].command_key = "shutdown"
        /\ calls[d].kind = "dispatch"
        /\ calls[d].returned
        /\ calls[d].result.requires_confirmation

(***************************************************************************)
(* Properties of the macro engine                                          *)
(***************************************************************************)
\* C8: a run stops at the first step whose callback fails or raises: no
\* later step is invoked and the run is reported as failed.
C8_RunAbortsAtFirstFailure ==
    \A r \in 1..Len(runs) :
        \A k \in 1..Len(runs[r].results) :
            runs[r].results[k] # "ok" =>
               /\ Len(runs[r].invoked) = k
               /\ runs[r].ret # "true"

\* The runs of a macro that came to their end with every step a success.
SuccessfulRuns(macro_id) ==
    { r \in 1..Len(runs) :
        /\ runs[r].macro = macro_id
        /\ runs[r].phase = "done"
        /\ Len(runs[r].results) = Len(Commands_of(macro_id))
        /\ \A k \in 1..Len(runs[r].results) : runs[r].results[k] = "ok" }

\* C9: run_count counts the runs in which every step succeeded, and no
\* other run.
C9_RunCountCountsSuccessfulRuns ==
    \A i \in 1..Len(macros) :
        macros[i].run_count = Cardinality(SuccessfulRuns(macros[i].id))

\* The delay configured for step k of a run.
DelayOf(run, k) == Commands_of(run.macro)[k].delay

\* C10: in a run the callback is invoked for steps 1, 2, ... in this order,
\* once each, and for step k+1 only when the callback of step k has come
\* back and the delay of step k has passed since.
C10_StepsInOrderAfterDelay ==
    [][\A r \in 1..Len(runs) :
          /\ runs'[r].invoked = [k \in 1..Len(runs'[r].invoked) |-> k]
          /\ Len(runs'[r].invoked) <= Len(Commands_of(runs'[r].macro))
          /\ Len(runs'[r].invoked) # Len(runs[r].invoked) =>
                /\ Len(runs'[r].invoked) = Len(runs[r].invoked) + 1
                /\ Len(runs[r].results) = Len(runs[r].invoked)
                /\ Len(runs[r].invoked) >= 1 =>
                      now >= runs[r].done_at + DelayOf(runs[r], Len(runs[r].invoked))]_vars

\* A run whose first step has a delay went through a second step.
C10_Witness ==
    \E r \in 1..Len(runs) :
        /\ Len(runs[r].invoked) >= 2
        /\ DelayOf(runs[r], 1) > 0
        /\ runs[r].phase = "done"

(***************************************************************************)
(* Macro delays                                                            *)
(***************************************************************************)
\* The callback is invoked for the next step of run r in this step.
InvokesNext(r) ==
    /\ Len(runs[r].invoked) >= 1
    /\ Len(runs'[r].invoked) = Len(runs[r].invoked) + 1

\* C11 as stated: the delay configured on a step is observed before that
\* step's invocation: step k+1 is invoked no sooner than its own delay after
\* the invocation of step k (for delays 0, 2, 0 the second invocation comes
\* 2 after the first).
C11_DelayBeforeStep ==
    [][\A r \in 1..Len(runs) :
          InvokesNext(r) =>
              now >= runs[r].invoked_at + DelayOf(runs[r], Len(runs[r].invoked) + 1)]_vars

\* C11 amended: the delay configured on a step is observed after that
\* step's callback: step k+1 is invoked no sooner than the delay of step k
\* after the invocation of step k (for delays 0, 2, 0 the third invocation
\* comes 2 after the second, the second is not held back).
C11_DelayAfterStep ==
    [][\A r \in 1..Len(runs) :
          InvokesNext(r) =>
              now >= runs[r].invoked_at + DelayOf(runs[r], Len(runs[r].invoked))]_vars

\* A run of the macro with delays 0, 2, 0 has invoked its third step, 2 or
\* more after the second step came back.
C11_Witness ==
    \E r \in 1..Len(runs) :
        /\ runs[r].macro = ClockMacro.id
        /\ Len(runs[r].invoked) = 3
        /\ runs[r].phase = "await"
        /\ runs[r].invoked_at >= runs[r].done_at + 2

(***************************************************************************)
(* The scheduler                                                           *)
(***************************************************************************)
\* The scheduler thread polls and has polled at this instant.
Polled == sched_pc = "loop" /\ polled

\* The instants from the thread's start to now that are time of day at.
InstantsAt(at) == {u \in 1..now : u % DayLen = at}

\* C12: an enabled once task fires exactly one time while the scheduler
\* runs and is disabled after that fire: it never has a run count above 1,
\* and once the thread has polled at or after the task's time of day the
\* run count is 1 and the task is disabled.
C12_OnceFiresOnce ==
    /\ tasks[OnceId].run_count <= 1
    /\ (Polled /\ InstantsAt(tasks[OnceId].schedule_time) # {}) =>
           /\ tasks[OnceId].run_count = 1
           /\ ~tasks[OnceId].enabled

\* C13: while the scheduler runs, an enabled daily task for time T fires
\* exactly once per day, at T, and at no other time, whatever is done to
\* other tasks: when the thread has polled, the run count is the number of
\* instants so far that are time of day T, and the last run was at T.
C13_DailyFiresOncePerDayAtT ==
    Polled =>
        /\ tasks[DailyId].run_count =
              Cardinality(InstantsAt(tasks[DailyId].schedule_time))
        /\ tasks[DailyId].run_count > 0 =>
              tasks[DailyId].last_run % DayLen = tasks[DailyId].schedule_time

\* C14: while the scheduler runs, an enabled interval task for N fires every
\* N instants since the start, whatever is done to other tasks: when the
\* thread has polled, the run count is now divided by N, and the last run
\* was at the latest multiple of N.
C14_IntervalFiresEveryN ==
    Polled =>
        /\ tasks[IntervalId].run_count = now \div tasks[IntervalId].schedule_time
        /\ tasks[IntervalId].run_count > 0 =>
              tasks[IntervalId].last_run =
                 now - (now % tasks[IntervalId].schedule_time)

\* The fires of task_id among fs.
FiresOf(fs, task_id) == {k \in 1..Len(fs) : fs[k].task = task_id}

\* C15: each fire sets last_run and adds exactly one to run_count before
\* the callback registered for the task, if any, is called with the task's
\* command and parameters; a callback that raises does not stop the loop:
\* after a poll the thread polls on and every job that was due has fired
\* its task.
C15_FireUpdatesThenCalls ==
    [][(polled' /\ ~polled) =>
          /\ sched_pc' = "loop"
          /\ \A j \in 1..Len(jobs) :
                (jobs[j].next_run <= now /\ jobs[j].task \in DOMAIN tasks) =>
                    (tasks[jobs[j].task].enabled =>
                        FiresOf(fires', jobs[j].task) # {})
          /\ \A id \in DOMAIN tasks :
                tasks'[id].run_count =
                   tasks[id].run_count + Cardinality(FiresOf(fires', id))
          /\ \A k \in 1..Len(fires') :
                /\ fires'[k].run_count = fires'[k].before + 1
                /\ fires'[k].before >= tasks[fires'[k].task].run_count
                /\ fires'[k].last_run = now
                /\ tasks'[fires'[k].task].last_run = now
                /\ fires'[k].called = (fires'[k].task \in task_callbacks)
                /\ fires'[k].command = tasks[fires'[k].task].command
                /\ fires'[k].parameters = tasks[fires'[k].task].parameters]_vars

\* Two tasks fired in one poll; the callback of the first raised, the
\* callback of the second was called all the same.
C15_Witness ==
    /\ Polled
    /\ Len(fires) >= 2
    /\ fires[1].raised
    /\ fires[2].called
    /\ fires[1].task # fires[2].task

\* A job without the time it is due next.
JobKey(job) == [job EXCEPT !.next_run = 0]

JobKeys(js) == [j \in 1..Len(js) |-> JobKey(js[j])]

\* C16: after a create, update, toggle or delete the schedule table is what
\* a fresh rebuild from the enabled tasks gives, also when the call falls
\* into the thread's first scheduling: once the thread polls, the job list
\* is the list _schedule_all_tasks would build.
C16_TableIsFreshRebuild ==
    sched_pc = "loop" => JobKeys(jobs) = JobKeys(schedule_all_tasks(tasks, now))

(***************************************************************************)
(* handle_command                                                          *)
(***************************************************************************)
\* C17: every handle_command call returns a result; a failure is reported
\* in the result and never raised out of handle_command, for an interactive
\* call and for a macro step's call with override parameters: no call ends
\* in its parameter merge and no step's callback raises.
C17_NeverRaises ==
    /\ \A c \in DOMAIN calls : calls[c].kind # "raise"
    /\ \A r \in 1..Len(runs) :
          \A k \in 1..Len(runs[r].results) : runs[r].results[k] # "raised"

\* C18: every result handle_command returns, on every return path, carries
\* the action key, the resolved language and a timestamp.
C18_ResultCarriesMetadata ==
    \A c \in DOMAIN calls :
        calls[c].returned =>
            /\ calls[c].result.has_meta
            /\ calls[c].result.command_key = calls[c].command_key
            /\ calls[c].result.language = calls[c].current_lang

\* The call went to the branch for action keys without a handler.
IsFallback(call) == call.kind = "dispatch" /\ call.command_key \notin HandlerKeys

\* C19: a call whose action key has no handler consults the fallback exactly
\* once (and no other call consults it); a text that comes back makes the
\* result a success with the text as response, nothing coming back makes it
\* a failure marked unrecognized; no confirmation is minted for the call.
C19_FallbackConsultedOnce ==
    \A c \in DOMAIN calls :
        /\ calls[c].consulted = (IF IsFallback(calls[c]) THEN 1 ELSE 0)
        /\ (IsFallback(calls[c]) /\ calls[c].returned) =>
              /\ \/ /\ calls[c].result.success
                    /\ calls[c].result.action_type = "CONVERSATION"
                    /\ calls[c].result.response = "llm_response"
                    /\ calls[c].result.error = ""
                 \/ /\ ~calls[c].result.success
                    /\ calls[c].result.action_type = "UNKNOWN"
                    /\ calls[c].result.error = "Command not recognized"
              /\ ~calls[c].result.requires_confirmation
              /\ calls[c].result.confirmation_id = 0
              /\ c \notin DOMAIN pending_confirmations

\* Two calls went to the fallback; a text came back for one and nothing for
\* the other.
C19_Witness ==
    \E c, d \in DOMAIN calls :
        /\ IsFallback(calls[c]) /\ calls[c].returned /\ calls[c].result.success
        /\ IsFallback(calls[d]) /\ calls[d].returned /\ ~calls[d].result.success

\* C20: with an explicit language argument the resolved language, the one
\* in the result's language field and in the pending confirmation minted
\* for the call, is that argument, whatever the text.
C20_ExplicitLanguageWins ==
    \A c \in DOMAIN requests :
        /\ (calls[c].returned /\ calls[c].result.has_meta) =>
              calls[c].result.language = requests[c].language
        /\ c \in DOMAIN pending_confirmations =>
              pending_confirmations[c].language = requests[c].language

\* The handle_command call step idx of run made, up to its first await.
StepEntry(run, idx) ==
    Entry(Commands_of(run.macro)[idx].command, run.language,
          Commands_of(run.macro)[idx].parameters)

\* C21: a call with override parameters hands the handler the parsed
\* parameters overlaid with the override parameters, the override winning,
\* whether the parser left parameter text or not: the call of every step a
\* run has invoked passed the merge, and its parameters are a mapping that
\* holds every pair of the step's parameters.
C21_OverrideOverlaysParsed ==
    \A r \in 1..Len(runs) :
        \A k \in 1..Len(runs[r].invoked) :
            /\ StepEntry(runs[r], runs[r].invoked[k]).kind # "raise"
            /\ Commands_of(runs[r].macro)[runs[r].invoked[k]].parameters # {} =>
                  /\ StepEntry(runs[r], runs[r].invoked[k]).params.isdict
                  /\ Commands_of(runs[r].macro)[runs[r].invoked[k]].parameters
                        \subseteq StepEntry(runs[r], runs[r].invoked[k]).params.dict

(***************************************************************************)
(* find_macro_by_trigger                                                   *)
(***************************************************************************)
\* The macro can be started by text: it is enabled, its trigger kind is
\* voice and its trigger phrase occurs in text, case aside.
StartedByText(macro, text) ==
    /\ macro.enabled
    /\ macro.trigger = "voice"
    /\ \E i \in 1..(Len(text) - Len(macro.trigger_phrase) + 1) :
          Lower(SubSeq(text, i, i + Len(macro.trigger_phrase) - 1))
             = Lower(macro.trigger_phrase)

\* C22: find_macro_by_trigger(text) returns the first macro in the table's
\* order that is enabled, of kind voice and whose phrase occurs in text case
\* aside (an empty phrase occurs in every text), and nothing when there is
\* no such macro: each handle_command call starts exactly that macro, the
\* table being the one at the time of the call.
C22_FirstEnabledVoiceMatch ==
    [][n_calls' = n_calls + 1 =>
          IF \E i \in 1..Len(macros) : StartedByText(macros[i], calls'[n_calls'].text)
          THEN \E i \in 1..Len(macros) :
                  /\ StartedByText(macros[i], calls'[n_calls'].text)
                  /\ \A j \in 1..(i - 1) :
                        ~StartedByText(macros[j], calls'[n_calls'].text)
                  /\ calls'[n_calls'].kind = "macro"
                  /\ calls'[n_calls'].macro = macros[i].id
          ELSE /\ calls'[n_calls'].kind # "macro"
               /\ calls'[n_calls'].macro = 0]_vars

\* A text in capitals started the second macro, whose phrase is empty; the
\* first macro's phrase occurs in the text but the macro is a hotkey macro.
C22_Witness ==
    \E c \in DOMAIN calls :
        /\ Len(macros) >= 2
        /\ calls[c].text = "Good Night now"
        /\ calls[c].kind = "macro"
        /\ calls[c].macro = macros[2].id
        /\ macros[2].trigger_phrase = ""
        /\ macros[1].trigger = "hotkey"
        /\ macros[1].enabled
        /\ macros[1].trigger_phrase = "NIGHT"

(***************************************************************************)
(* The parser                                                              *)
(***************************************************************************)
\* The items <<phrase, key>> of command_map.
Registered == { command_map[i] : i \in 1..Len(command_map) }

\* The pairs <<a, b>> of items where the phrase of a is a substring of the
\* phrase of b and the two have different keys.
SubstringPairs ==
    UNION { { <<a, b>> : a \in { c \in Registered : /\ c[1] # b[1]
                                                   /\ c[2] # b[2]
                                                   /\ Contains(b[1], c[1]) } } :
            b \in Registered }

\* The text of a parse as the parser looks at it.
Seen(parse) == Strip(Lower(parse.text))

\* No registered phrase other than phrase, and as long as it or longer,
\* occurs in the text.
LongestIn(phrase, text_lower) ==
    \A c \in Registered :
        (Len(c[1]) >= Len(phrase) /\ c[1] # phrase) => ~Contains(text_lower, c[1])

\* The parse came to key, or to google_search by the rule for the keys
\* open_browser and open_app in texts that speak of a search or a new tab.
KeyOrSearch(parse, key) ==
    \/ parse.parsed.command_key = key
    \/ /\ key \in {"open_browser", "open_app"}
       /\ Contains(Seen(parse), "search") \/ Contains(Seen(parse), "new tab")
       /\ parse.parsed.command_key = "google_search"

\* C23 as stated: for registered phrases A and B, A a substring of B, with
\* different keys, every text that contains B is parsed to B's key.
C23_LongestMatch ==
    \A i \in 1..Len(parses) :
        \A ab \in SubstringPairs :
            Contains(Seen(parses[i]), ab[2][1]) =>
                parses[i].parsed.command_key = ab[2][2]

\* C23 amended: for such A and B, every text that contains B and no other
\* registered phrase as long as B or longer is parsed to B's key and not to
\* A's, the rewrite of open_browser and open_app to google_search aside.
\* It is stated of the latest parse: every parse is the latest one of the
\* state it was made in.
C23_LongestMatchOfText ==
    parses # <<>> =>
        \A ab \in SubstringPairs :
            (/\ Contains(Seen(parses[Len(parses)]), ab[2][1])
             /\ LongestIn(ab[2][1], Seen(parses[Len(parses)]))) =>
                /\ KeyOrSearch(parses[Len(parses)], ab[2][2])
                /\ parses[Len(parses)].parsed.command_key # ab[1][2]

\* A text with more in it than the phrase B, B the longest phrase in it,
\* was parsed to B's key; another such text was rewritten to google_search.
C23_Witness ==
    /\ \E i \in 1..Len(parses) :
          \E ab \in SubstringPairs :
              /\ Contains(Seen(parses[i]), ab[2][1])
              /\ Seen(parses[i]) # ab[2][1]
              /\ LongestIn(ab[2][1], Seen(parses[i]))
              /\ parses[i].parsed.command_key = ab[2][2]
    /\ \E i \in 1..Len(parses) :
          \E ab \in SubstringPairs :
              /\ Contains(Seen(parses[i]), ab[2][1])
              /\ LongestIn(ab[2][1], Seen(parses[i]))
              /\ parses[i].parsed.command_key = "google_search"
              /\ ab[2][2] = "open_browser"

\* Every (phrase, action key) listing of the lexicon, a phrase listed under
\* several keys once for each of them.
Listed ==
    { LexiconPairs(HINDI_COMMANDS, 1)[i] :
        i \in 1..Len(LexiconPairs(HINDI_COMMANDS, 1)) }

\* C24: for every phrase P listed in the lexicon under action key K, the
\* text consisting of P alone is parsed to K, for each of the keys a phrase
\* is listed under.
C24_PhraseAloneGivesEachKey ==
    parses # <<>> =>
        \A e \in Listed :
            Seen(parses[Len(parses)]) = e[1] =>
                parses[Len(parses)].parsed.command_key = e[2]

C26_OverdueEventuallySwept ==
    /\ \A id \in ConfIds :
          (/\ id \in DOMAIN pending_confirmations
           /\ now > pending_confirmations[id].expires_at + CLEANUP_GRACE)
              ~> (id \notin DOMAIN pending_confirmations)
    /\ [][\A id \in DOMAIN pending_confirmations \ DOMAIN pending_confirmations' :
              now > pending_confirmations[id].expires_at + CLEANUP_GRACE]_vars

\* The runs through whose steps run r came to be created.
RECURSIVE Ancestors(_)
Ancestors(r) ==
    IF runs[r].parent = 0 THEN {}
    ELSE {runs[r].parent} \cup Ancestors(runs[r].parent)

\* C27: one interactive handle_command call leads to finitely many macro
\* runs and nested handle_command calls, also when a step's text holds the
\* trigger phrase of an enabled voice macro. With the table left as it is a
\* chain of runs is finite exactly if it never comes back to a macro it
\* passed: no run is of the same macro as a run it descends from.
C27_ChainsOfRunsEnd ==
    \A r \in 1..Len(runs) :
        \A a \in Ancestors(r) : runs[a].macro # runs[r].macro

\* C28: the pending confirmation handle_command mints carries the details
\* the handler returned with its request (the application name for
\* close_app, the file path for delete_file), so that approving it
\* re-invokes the handler on the target of the original command.
C28_ApprovalReinvokesSameTarget ==
    \A id \in DOMAIN reexecuted :
        pending_confirmations[id].command_key \in {"close_app", "delete_file"} =>
            reexecuted[id] = HandlerTarget(calls[id].command_key, calls[id].params)

\* C29: once toggle_task (to disabled) or delete_task has returned for a
\* task, the scheduler thread neither increments its run_count nor calls its
\* callback, however _execute_task and the call interleave: a thread takes
\* these two steps only for a task that is in the table and enabled.
C29_NoFireAfterDisableOrDelete ==
    [][\A i \in 1..Len(threads) :
          (/\ \/ threads[i].pc = "stats"
              \/ /\ threads[i].pc = "callback"
                 /\ Head(threads[i].todo).task \in task_callbacks
           /\ threads'[i].pc # threads[i].pc) =>
              /\ Head(threads[i].todo).task \in DOMAIN tasks
              /\ tasks[Head(threads[i].todo).task].enabled]_vars

\* C30: at most one scheduler loop is active at any time, whatever the
\* sequence of start_scheduler and stop_scheduler calls.
C30_OneSchedulerLoop == Cardinality(Alive(threads)) <= 1

====
